---------------------------- MODULE Spec2Model ----------------------------
(***************************************************************************)
(* A model of the Visa interchange batch pipeline (BASE II drafts):        *)
(*   - the record framer          (visa/transform.py, visa/transformers.py)*)
(*   - the rule engine            (visa/interchange.py)                    *)
(*   - the stage row contracts    (visa/extract.py, clean.py, calculate.py,*)
(*                                 store.py)                               *)
(*   - the run-all orchestrator   (run_demo.py) and the VSS stage loops    *)
(*   - the clean stage            (visa/clean.py): configuration errors    *)
(*                                 and cell values                         *)
(*   - the transform stage loader (visa/transform.py, persistence/files.py)*)
(*   - the ARDEF resolver, the account binding and the jurisdiction fields *)
(*                                 (visa/calculate.py)                     *)
(*   - the rule criteria on the text of their cells (visa/interchange.py)  *)
(*   - the field extractor on the sub-record texts  (visa/extract.py)      *)
(*   - the date formats !MMDD and !YYYYDDD          (visa/clean.py)        *)
(*   - the dispatch tables business_transaction_type and                   *)
(*     reversal_indicator                           (visa/calculate.py)    *)
(* Data frames are modelled as sequences of rows carrying their pandas     *)
(* index label, because several operations align on the label and not on   *)
(* the position.                                                           *)
(***************************************************************************)
EXTENDS Integers, Sequences, FiniteSets, TLC

VARIABLES
    \* ---- record framer ----
    fr_pc,        \* "idle" | "selected" | "done"
    values,       \* the selected lines in file order: the sequence digit of each
    framer,       \* which framer ran: "none" | "transform" | "transformers"
    drafts_df,    \* the pivoted frame: a sequence of rows, row[c] for c in 0..7
    pivot_error,  \* TRUE when DataFrame.pivot raised ValueError (duplicate cell)
    \* ---- rule engine (_evaluate_interchange_fees) ----
    ru_pc,        \* "idle" | "start" | "loop" | "done"
    transactions, \* the merged clean + calculated frame; row p has index label p
    rules,        \* the rule frame, sorted by (region_country_code, intelica_id)
    rates,        \* the exchange-rate frame
    rules_to_evaluate, \* rules narrowed to the jurisdictions present in the data
    ru_i,         \* position of the next rule of the loop
    itx,          \* the eight interchange_* columns, one record per transaction
    \* ---- stage row contracts (extract .. store of one BASE II file) ----
    st_pc,        \* the next stage: "idle" | "extract" | "clean" | "calculate" |
                  \* "interchange" | "store" | "done" | "failed"
    raw,          \* 100-BASEII_RAW_DRAFTS: row p has index label p
    field_defs,   \* visa_field rows in sort order: their secondary_identifier
    country,      \* the country table: its country_code column
    ext_df,       \* 200-BASEII_EXT_DRAFTS
    cln_df,       \* 300-BASEII_CLN_DRAFTS
    cal_df,       \* 400-BASEII_CAL_DRAFTS
    itx_df,       \* 500-BASEII_ITX_DRAFTS
    opr_df,       \* BASEII_DRAFTS in the operational layer
    \* ---- the interchange stage run twice on one file ----
    rr_pc,        \* "idle" | "first" | "second" | "done"
    file_processing_date, \* file_control.file_processing_date of the file
    visa_rules,   \* the visa_rules table with its validity columns
    merged_data,  \* the clean artifact joined with the calculated artifact
    today,        \* date.today() of the latest run
    itx_artifact, \* 500-BASEII_ITX_DRAFTS as the latest run wrote it
    itx_previous, \* the artifact as it was before the latest run
    \* ---- stage invocations and the run-all orchestrator ----
    driver,       \* who invokes the stages: "none" | "run_demo" | "direct"
    or_pc,        \* position of the next call of run_demo.py
    call,         \* the stage function that is running, or "none"
    vss_i,        \* position in vss_types of the running VSS loop (0: before it)
    artifacts,    \* the artifacts in the store
    written,      \* the artifacts the latest invocation wrote
    outcome,      \* of the latest invocation: "none" | "returned" | "raised"
    invoked,      \* the stage functions invoked so far, in order
    fault,        \* TRUE once a storage or configuration error was raised
    vss_present,  \* the VSS types that have records in the landing file
    \* ---- the clean stage of a BASE II file ----
    cl_pc,        \* "idle" | "loop" | "done" | "raised"
    columns,      \* the column names of the extracted artifact, in order
    visa_fields,  \* the field definitions of the record type
    cl_i,         \* position of the next column of the loop
    fields,       \* the cleaned columns so far
    cln_before,   \* the target artifact as it was when the stage started
    cln_artifact, \* the target artifact
    \* ---- the transform stage of a BASE II file ----
    ld_pc,        \* "idle" | "start" | "loaded" | "done" | "raised"
    file_lines,   \* the non-empty lines of the landing file, in order
    empty_dtype,  \* dtype of pd.Series([]) in the build: "object" | "float64"
    ctf_records,  \* what _load_as_ctf returned
    error_logged, \* TRUE once the unknown line length was logged
    raw_drafts,   \* 100-BASEII_RAW_DRAFTS
    \* ---- the ARDEF resolver and the account binding of calculate ----
    ar_pc,        \* "idle" | "resolve" | "resolved" | "calculate" | "calculated" | "raised"
    visa_ardef,   \* the visa_ardef rows with a blank delete_indicator
    ar_file_date, \* file_control.file_processing_date of the file
    clean_accounts, \* the clean artifact: index label and account number
    ardef_data,   \* what _get_visa_ardef returned, in row order
    account_interval, \* data["account_interval"], one interval per row
    ar_cal,        \* 400-BASEII_CAL_DRAFTS: ardef_country and issuer_bin_8
    \* ---- the jurisdiction fields of calculate ----
    ju_pc,        \* "idle" | "calculate" | "done"
    jur_source,   \* the clean artifact with its bound ARDEF attributes; row p
                  \* has index label p
    country_table, \* the country table: country_code and visa_region_code
    file_type,    \* file_control.file_type of the file: "OUT" | "IN"
    jur_cal,       \* 400-BASEII_CAL_DRAFTS: jurisdiction, jurisdiction_assigned
    \* ---- the cell values of the clean stage ----
    cv_pc,        \* "idle" | "clean" | "done" | "raised"
    ext_cells,    \* one row of the extracted artifact: per column its field
                  \* definition and the extracted text
    cln_cells,     \* the same row of the clean artifact
    \* ---- rule criteria (_apply_condition on the cell text) ----
    cr_pc,        \* "idle" | "apply" | "applied" | "rule" | "written" | "raised"
    cr_name,      \* the criterion column (condition_name)
    cr_value,     \* the criterion cell as stored (condition_value), a character sequence
    cr_rule,      \* the criteria cells of one rule, by column
    cr_batch,     \* the batch of transactions handed to the criterion
    cr_rates,     \* the exchange-rate frame
    cr_filter,     \* the rows the criterion (or the rule) returned
    \* ---- field extractor (extract_baseii_fields on the sub-record texts) ----
    ex_pc,        \* "idle" | "extract" | "extracted" | "raised"
    ex_data,      \* 100-BASEII_RAW_DRAFTS: row p has label p and a text per sub-record
    ex_defs,      \* the field definitions in sort order
    extract_df,    \* the extracted frame: rows of idx and one cell per definition
    \* ---- date formats (_parse_dates on one cell) ----
    dt_pc,        \* "idle" | "parse" | "parsed"
    dt_format,    \* date_format of the field definition
    dt_file_date, \* file_processing_date
    dt_text,      \* the stripped cell
    dt_result,     \* the cleaned value: a date or Null
    \* ---- dispatch tables (business_transaction_type, reversal_indicator) ----
    bt_pc,        \* "idle" | "calculate" | "calculated"
    bt_source,    \* one row of the clean frame
    bt_fields     \* the calculated values of the row

fr_vars == <<fr_pc, values, framer, drafts_df, pivot_error>>

ru_vars == <<ru_pc, transactions, rules, rates, rules_to_evaluate, ru_i, itx>>

st_vars == <<st_pc, raw, field_defs, country, ext_df, cln_df, cal_df, itx_df, opr_df>>

rr_vars == <<rr_pc, file_processing_date, visa_rules, merged_data, today,
             itx_artifact, itx_previous>>

or_vars == <<driver, or_pc, call, vss_i, artifacts, written, outcome, invoked,
             fault, vss_present>>

cl_vars == <<cl_pc, columns, visa_fields, cl_i, fields, cln_before, cln_artifact>>

ld_vars == <<ld_pc, file_lines, empty_dtype, ctf_records, error_logged, raw_drafts>>

ar_vars == <<ar_pc, visa_ardef, ar_file_date, clean_accounts, ardef_data, account_interval, ar_cal>>

ju_vars == <<ju_pc, jur_source, country_table, file_type, jur_cal>>

cv_vars == <<cv_pc, ext_cells, cln_cells>>

cr_vars == <<cr_pc, cr_name, cr_value, cr_rule, cr_batch, cr_rates, cr_filter>>

ex_vars == <<ex_pc, ex_data, ex_defs, extract_df>>

dt_vars == <<dt_pc, dt_format, dt_file_date, dt_text, dt_result>>

bt_vars == <<bt_pc, bt_source, bt_fields>>

vars == <<fr_vars, ru_vars, st_vars, rr_vars, or_vars, cl_vars, ld_vars,
         ar_vars,
         ju_vars,
         cv_vars,
         cr_vars,
         ex_vars,
         dt_vars,
         bt_vars>>

\* What each subsystem leaves alone.
fr_others == <<ru_vars, st_vars, rr_vars, or_vars, cl_vars, ld_vars,
    ar_vars,
    ju_vars,
    cv_vars,
    cr_vars,
    ex_vars,
    dt_vars,
    bt_vars>>

ru_others == <<fr_vars, st_vars, rr_vars, or_vars, cl_vars, ld_vars,
    ar_vars,
    ju_vars,
    cv_vars,
    cr_vars,
    ex_vars,
    dt_vars,
    bt_vars>>

st_others == <<fr_vars, ru_vars, rr_vars, or_vars, cl_vars, ld_vars,
    ar_vars,
    ju_vars,
    cv_vars,
    cr_vars,
    ex_vars,
    dt_vars,
    bt_vars>>

rr_others == <<fr_vars, ru_vars, st_vars, or_vars, cl_vars, ld_vars,
    ar_vars,
    ju_vars,
    cv_vars,
    cr_vars,
    ex_vars,
    dt_vars,
    bt_vars>>

or_others == <<fr_vars, ru_vars, st_vars, rr_vars, cl_vars, ld_vars,
    ar_vars,
    ju_vars,
    cv_vars,
    cr_vars,
    ex_vars,
    dt_vars,
    bt_vars>>

cl_others == <<fr_vars, ru_vars, st_vars, rr_vars, or_vars, ld_vars,
    ar_vars,
    ju_vars,
    cv_vars,
    cr_vars,
    ex_vars,
    dt_vars,
    bt_vars>>

ld_others == <<fr_vars, ru_vars, st_vars, rr_vars, or_vars, cl_vars,
    ar_vars,
    ju_vars,
    cv_vars,
    cr_vars,
    ex_vars,
    dt_vars,
    bt_vars>>

ar_others == <<fr_vars, ru_vars, st_vars, rr_vars, or_vars, cl_vars, ld_vars,
    ju_vars,
    cv_vars,
    cr_vars,
    ex_vars,
    dt_vars,
    bt_vars>>

ju_others == <<fr_vars, ru_vars, st_vars, rr_vars, or_vars, cl_vars, ld_vars, ar_vars,
    cv_vars,
    cr_vars,
    ex_vars,
    dt_vars,
    bt_vars>>

cv_others == <<fr_vars, ru_vars, st_vars, rr_vars, or_vars, cl_vars, ld_vars, ar_vars, ju_vars,
    cr_vars,
    ex_vars,
    dt_vars,
    bt_vars>>

cr_others == <<fr_vars, ru_vars, st_vars, rr_vars, or_vars, cl_vars, ld_vars, ar_vars, ju_vars, cv_vars,
    ex_vars,
    dt_vars,
    bt_vars>>

ex_others == <<fr_vars, ru_vars, st_vars, rr_vars, or_vars, cl_vars, ld_vars, ar_vars, ju_vars, cv_vars, cr_vars,
    dt_vars,
    bt_vars>>

dt_others == <<fr_vars, ru_vars, st_vars, rr_vars, or_vars, cl_vars, ld_vars, ar_vars, ju_vars, cv_vars, cr_vars, ex_vars,
    bt_vars>>

bt_others == <<fr_vars, ru_vars, st_vars, rr_vars, or_vars, cl_vars, ld_vars, ar_vars, ju_vars, cv_vars, cr_vars, ex_vars, dt_vars>>

---------------------------------------------------------------------------
(* Generic helpers                                                         *)

Range(s) == {s[i] : i \in 1..Len(s)}

SeqsUpTo(S, n) == UNION {[1..k -> S] : k \in 0..n}

Min(S) == CHOOSE x \in S : \A y \in S : x <= y

\* The subsets of S with at most n elements.
RECURSIVE SubsetsUpTo(_, _)
SubsetsUpTo(S, n) ==
    IF n = 0
        THEN {{}}
        ELSE LET smaller == SubsetsUpTo(S, n - 1)
             IN  smaller \cup {T \cup {x} : T \in smaller, x \in S}

\* The elements of a finite set of integers in ascending order.
RECURSIVE SortedSeq(_)
SortedSeq(S) == IF S = {} THEN <<>> ELSE <<Min(S)>> \o SortedSeq(S \ {Min(S)})

---------------------------------------------------------------------------
(* Record framer: transform._pivot_values_on_key and the older copy        *)
(* transformers.transform_baseii_drafts                                    *)

\* Bound: number of selected lines in a file.
MaxLines == 5

\* VALID_TCSN = ["0", ..., "7"]: the highest sub-record sequence number.
MaxTcsn == 7

VALID_TCSN == 0..MaxTcsn

\* A missing (transaction, seq) cell after .fillna("") / left as NaN.
EmptyCell == 0

NaNCell == -1

\* (key <= key.shift(1)).cumsum(): the first comparison is against NaN (False).
RECURSIVE CumsumLE(_, _)
CumsumLE(keys, i) ==
    IF i = 0 THEN 0
    ELSE CumsumLE(keys, i - 1)
         + (IF i > 1 /\ keys[i] <= keys[i - 1] THEN 1 ELSE 0)

\* (tcsn < tcsn.shift(1)).cumsum()
RECURSIVE CumsumLT(_, _)
CumsumLT(keys, i) ==
    IF i = 0 THEN 0
    ELSE CumsumLT(keys, i - 1)
         + (IF i > 1 /\ keys[i] < keys[i - 1] THEN 1 ELSE 0)

\* values_df["record"] of transform._pivot_values_on_key
RecordOfMutLT(keys) == [i \in 1..Len(keys) |-> CumsumLT(keys, i)]

RecordOf(keys) == [i \in 1..Len(keys) |-> CumsumLE(keys, i)]

\* raw_drafts_df["transaction"] of transformers.transform_baseii_drafts
TransactionOf(keys) == [i \in 1..Len(keys) |-> CumsumLT(keys, i)]

\* DataFrame.pivot raises ValueError when an (index, column) pair repeats.
PivotRaises(keys, rec) ==
    \E i, j \in 1..Len(keys) : i < j /\ rec[i] = rec[j] /\ keys[i] = keys[j]

\* DataFrame.pivot(index, columns, values).reindex(columns=cols): one row per
\* distinct index value in ascending order, one column per cols; a cell holds
\* the line (its position in values) or the fill value.
Pivot(keys, rec, fill) ==
    LET ids == SortedSeq({rec[i] : i \in 1..Len(keys)})
    IN  [r \in 1..Len(ids) |->
            [c \in VALID_TCSN |->
                IF \E i \in 1..Len(keys) : rec[i] = ids[r] /\ keys[i] = c
                THEN CHOOSE i \in 1..Len(keys) : rec[i] = ids[r] /\ keys[i] = c
                ELSE fill]]

FramerIdle ==
    /\ fr_pc = "idle"
    /\ values = <<>>
    /\ framer = "none"
    /\ drafts_df = <<>>
    /\ pivot_error = FALSE

FramerStart ==
    /\ fr_pc = "selected"
    /\ values \in SeqsUpTo(VALID_TCSN, MaxLines)
    /\ framer = "none"
    /\ drafts_df = <<>>
    /\ pivot_error = FALSE

\* transform.transform_baseii_drafts: _pivot_values_on_key then write_parquet.
PivotValuesOnKey ==
    /\ fr_pc = "selected"
    /\ framer' = "transform"
    /\ LET rec == RecordOf(values)
       IN  IF PivotRaises(values, rec)
           THEN pivot_error' = TRUE /\ drafts_df' = <<>>
           ELSE pivot_error' = FALSE /\ drafts_df' = Pivot(values, rec, EmptyCell)
    /\ fr_pc' = "done"
    /\ UNCHANGED <<values, fr_others>>

\* transformers.transform_baseii_drafts: the strictly-less copy (no fillna).
TransformBaseiiDraftsLT ==
    /\ fr_pc = "selected"
    /\ framer' = "transformers"
    /\ LET rec == TransactionOf(values)
       IN  IF PivotRaises(values, rec)
           THEN pivot_error' = TRUE /\ drafts_df' = <<>>
           ELSE pivot_error' = FALSE /\ drafts_df' = Pivot(values, rec, NaNCell)
    /\ fr_pc' = "done"
    /\ UNCHANGED <<values, fr_others>>

FramerNext == PivotValuesOnKey \/ TransformBaseiiDraftsLT

---------------------------------------------------------------------------
(* Record framer: properties                                               *)

\* The rows of the framed output that hold line i (in any column).
RowsHolding(i) ==
    {r \in 1..Len(drafts_df) : \E c \in VALID_TCSN : drafts_df[r][c] = i}

RowHolding(i) == CHOOSE r \in RowsHolding(i) : TRUE

\* Every selected line sits in exactly one cell, the one of its own sequence
\* number, so no cell received two lines and no line was lost.
OneLinePerCell ==
    /\ ~pivot_error
    /\ \A i \in 1..Len(values) :
          /\ Cardinality(RowsHolding(i)) = 1
          /\ drafts_df[RowHolding(i)][values[i]] = i

\* C8: transform._pivot_values_on_key opens a new transaction exactly when a
\* line's sequence number is <= the previous selected line's, so within one
\* transaction the sequence numbers strictly increase in file order and no
\* (transaction, sequence) cell receives two lines.
C8_FramerStrictlyIncreasing ==
    (fr_pc = "done" /\ framer = "transform") =>
        /\ OneLinePerCell
        /\ \A i \in 2..Len(values) :
              IF values[i] <= values[i - 1]
              THEN RowHolding(i) = RowHolding(i - 1) + 1
              ELSE RowHolding(i) = RowHolding(i - 1)
        /\ \A i, j \in 1..Len(values) :
              (i < j /\ RowHolding(i) = RowHolding(j)) => values[i] < values[j]

\* C8 witness: a file where a transaction holds several lines and a later line
\* repeats the previous sequence number has been framed.
C8_Witness ==
    /\ fr_pc = "done" /\ framer = "transform"
    /\ \E i \in 2..Len(values) : values[i] = values[i - 1]
    /\ \E i \in 2..Len(values) : values[i] > values[i - 1]
    /\ Len(drafts_df) >= 2

\* C9 (as claimed): under the strictly-less grouping of
\* transformers.transform_baseii_drafts every line sequence is framed with at
\* most one line per (transaction, sequence) cell, and [0,1,0,2,3] gives two
\* transactions.
C9_StrictlyLessFramesEverySequence ==
    (fr_pc = "done" /\ framer = "transformers") =>
        /\ OneLinePerCell
        /\ (values = <<0, 1, 0, 2, 3>> => Len(drafts_df) = 2)

\* C10 (as claimed): every framed transaction row has a line in column "0",
\* and columns "1".."7" hold a line or the empty string.
C10_SequenceZeroMandatory ==
    (fr_pc = "done" /\ framer = "transform" /\ ~pivot_error) =>
        \A r \in 1..Len(drafts_df) :
            /\ drafts_df[r][0] \in 1..Len(values)
            /\ \A c \in 1..MaxTcsn :
                  drafts_df[r][c] \in (1..Len(values)) \cup {EmptyCell}


---------------------------------------------------------------------------
(* Rule engine: interchange._evaluate_interchange_fees                     *)

\* Bound: number of transactions in a file.
MaxTxns == 2

\* Values of jurisdiction_assigned / region_country_code, and their order
\* under sort_values (string order: "9" < "PE").
Jurisdictions == {"9", "PE"}

RegionRank(r) == IF r = "9" THEN 0 ELSE 1

\* intelica_id values of the rule table.
RuleIds == {10, 20}

\* str(int) for the integers a default-group range expands to.
IntStr(n) == <<"0", "1", "2", "3", "4", "5", "6", "7", "8", "9">>[n + 1]

\* A blank criterion cell ("" / "NAN" / "NONE" after normalisation).
Blank == [kind |-> "blank"]

\* Criterion cells of the model, already whitespace-stripped and upper-cased:
\*   draft_code     "05"                      (default group)
\*   source_amount  "USD,BETWEEN100AND1000"   (amount-currency group)
\*   timeliness     "<=3"                     (numeric-range group)
DraftCodeCells ==
    {Blank, [kind |-> "list", tokens |-> <<[neg |-> FALSE, range |-> FALSE, txt |-> "05"]>>]}

SourceAmountCells ==
    {Blank, [kind |-> "amount", ccy |-> "USD", op |-> "BETWEEN", lo |-> 100, hi |-> 1000]}

TimelinessCells ==
    {Blank, [kind |-> "range", op |-> "<=", n |-> 3]}

\* The criteria columns of the rule frame, in frame (rule.index) order.
ConditionColumns == <<"draft_code", "source_amount", "timeliness">>

\* A rule row: identity and fee columns, then the criteria columns.
RuleRow(region, id, dc, sa, tl) ==
    [region_country_code |-> region, intelica_id |-> id,
     fee_descriptor |-> IF id = 10 THEN "FEE10" ELSE "FEE20",
     fee_currency |-> "USD",
     fee_variable |-> id, fee_fixed |-> id + 1, fee_min |-> id + 2, fee_cap |-> id + 3,
     draft_code |-> dc, source_amount |-> sa, timeliness |-> tl]

RuleRowsWithId(id) ==
    {RuleRow(r, id, dc, sa, tl) :
        r \in Jurisdictions, dc \in DraftCodeCells,
        sa \in SourceAmountCells, tl \in TimelinessCells}

\* df_valid.sort_values(["region_country_code", "intelica_id"])
RuleBefore(a, b) ==
    \/ RegionRank(a.region_country_code) < RegionRank(b.region_country_code)
    \/ /\ a.region_country_code = b.region_country_code
       /\ a.intelica_id < b.intelica_id

RECURSIVE SortRules(_)
SortRules(S) ==
    IF S = {} THEN <<>>
    ELSE LET first == CHOOSE a \in S : \A b \in S \ {a} : RuleBefore(a, b)
         IN  <<first>> \o SortRules(S \ {first})

\* Rule tables: each id is absent or carried by one rule.
RuleTables ==
    {SortRules(a \cup b) :
        a \in {{}} \cup {{r} : r \in RuleRowsWithId(10)},
        b \in {{}} \cup {{r} : r \in RuleRowsWithId(20)}}

TransactionRows ==
    [jurisdiction_assigned : Jurisdictions,
     draft_code : {"05", "06"},
     source_amount : {500, 50000},
     source_currency_code : {"840"},
     timeliness : {2, 4}]

\* The exchange-rate frame of the file's date: USD -> USD = 1.
RateTable ==
    <<[currency_to |-> "USD", currency_from_code |-> "840", exchange_value |-> 1]>>

\* The interchange_* columns as initialised at lines 340-347.
UnboundColumns ==
    [region_country_code |-> "", intelica_id |-> -1, fee_descriptor |-> "",
     fee_currency |-> "", fee_variable |-> 0, fee_fixed |-> 0,
     fee_min |-> 0, fee_cap |-> 0]

\* rule[update_columns]: the eight columns a binding writes.
UpdateColumns(rule) ==
    [region_country_code |-> rule.region_country_code,
     intelica_id |-> rule.intelica_id,
     fee_descriptor |-> rule.fee_descriptor, fee_currency |-> rule.fee_currency,
     fee_variable |-> rule.fee_variable, fee_fixed |-> rule.fee_fixed,
     fee_min |-> rule.fee_min, fee_cap |-> rule.fee_cap]

\* A batch row: idx is its index label, t the transaction it was copied from,
\* cv the comparison_value column (absent before the merge, NaN without a rate).
NoValue == [has |-> FALSE, val |-> 0]

BatchRow(idx, t) == [idx |-> idx, t |-> t, cv |-> NoValue]

\* The strings a default-group token stands for (lines 196-201).
TokenValues(tok) ==
    IF tok.range THEN {IntStr(k) : k \in tok.lo..tok.hi} ELSE {tok.txt}

ValidValues(cell) ==
    UNION {TokenValues(cell.tokens[k]) : k \in {j \in 1..Len(cell.tokens) : ~cell.tokens[j].neg}}

NotValidValues(cell) ==
    UNION {TokenValues(cell.tokens[k]) : k \in {j \in 1..Len(cell.tokens) : cell.tokens[j].neg}}

HasValid(cell) == \E j \in 1..Len(cell.tokens) : ~cell.tokens[j].neg

HasNotValid(cell) == \E j \in 1..Len(cell.tokens) : cell.tokens[j].neg

\* _apply_condition_default: boolean filters, index labels kept.
ApplyConditionDefault(txns, name, cell, batch) ==
    LET Keep(b) ==
            /\ HasValid(cell) => txns[b.t][name] \in ValidValues(cell)
            /\ HasNotValid(cell) => txns[b.t][name] \notin NotValidValues(cell)
    IN  SelectSeq(batch, Keep)

\* The numeric-range predicate of a cell on a value (query / between).
RangeHolds(cell, v) ==
    CASE cell.op = "<" -> v < cell.n
      [] cell.op = "<=" -> v <= cell.n
      [] cell.op = ">" -> v > cell.n
      [] cell.op = ">=" -> v >= cell.n
      [] cell.op = "BETWEEN" -> cell.lo <= v /\ v <= cell.hi

\* _apply_condition_greater_less: boolean filter, index labels kept.
ApplyConditionGreaterLess(txns, name, cell, batch) ==
    LET Keep(b) == RangeHolds(cell, txns[b.t][name])
    IN  SelectSeq(batch, Keep)

\* pd.merge(batch, target_rates, how="left", left_on, right_on): one output
\* row per matching rate row, or one row with NaN when none matches; the
\* result carries a fresh RangeIndex (labels are positions in the result).
RECURSIVE MergeRows(_, _, _, _, _)
MergeRows(txns, name, target_rates, batch, k) ==
    IF k > Len(batch) THEN <<>>
    ELSE LET b == batch[k]
             hits == SelectSeq(target_rates,
                        LAMBDA r : r.currency_from_code = txns[b.t].source_currency_code)
             out == IF Len(hits) = 0
                    THEN <<[t |-> b.t, cv |-> NoValue]>>
                    ELSE [h \in 1..Len(hits) |->
                            [t |-> b.t,
                             cv |-> [has |-> TRUE,
                                     val |-> txns[b.t][name] * hits[h].exchange_value]]]
         IN  out \o MergeRows(txns, name, target_rates, batch, k + 1)

ResetIndex(rows) == [p \in 1..Len(rows) |-> [idx |-> p, t |-> rows[p].t, cv |-> rows[p].cv]]

Merge(txns, name, target_rates, batch) ==
    ResetIndex(MergeRows(txns, name, target_rates, batch, 1))

\* _apply_condition_amount_currency: merge with the target currency's rates,
\* comparison_value = amount * exchange_value, then the range filter.
ApplyConditionAmountCurrency(txns, name, cell, batch, rts) ==
    LET target_rates == SelectSeq(rts, LAMBDA r : r.currency_to = cell.ccy)
        merged == Merge(txns, name, target_rates, batch)
        Keep(b) == b.cv.has /\ RangeHolds(cell, b.cv.val)
    IN  SelectSeq(merged, Keep)

\* _apply_condition: a blank cell is a no-op, otherwise dispatch on the column.
ApplyCondition(txns, name, cell, batch, rts) ==
    IF cell = Blank THEN batch
    ELSE IF name \in {"surcharge_amount", "timeliness"}
         THEN ApplyConditionGreaterLess(txns, name, cell, batch)
    ELSE IF name \in {"source_amount"}
         THEN ApplyConditionAmountCurrency(txns, name, cell, batch, rts)
    ELSE ApplyConditionDefault(txns, name, cell, batch)

\* Step 2 of the loop body: the conditions in column order, stopping as soon
\* as the batch is empty.
RECURSIVE ApplyConditions(_, _, _, _, _)
ApplyConditions(txns, rule, batch, rts, k) ==
    IF k > Len(ConditionColumns) \/ Len(batch) = 0 THEN batch
    ELSE ApplyConditions(txns, rule,
            ApplyCondition(txns, ConditionColumns[k], rule[ConditionColumns[k]], batch, rts),
            rts, k + 1)

\* Step 1 of the loop body: the unbound transactions of the rule's jurisdiction.
NextBatch(txns, cols, rule) ==
    LET all == [p \in 1..Len(txns) |-> BatchRow(p, p)]
        Keep(b) == /\ cols[b.t].intelica_id = -1
                   /\ txns[b.t].jurisdiction_assigned = rule.region_country_code
    IN  SelectSeq(all, Keep)

\* Step 3: transactions.update(next_batch[...]) aligns on the index label.
UpdateFrame(cols, batch, rule) ==
    [p \in 1..Len(cols) |->
        IF \E k \in 1..Len(batch) : batch[k].idx = p
        THEN UpdateColumns(rule) ELSE cols[p]]

\* One iteration of the loop at lines 372-396.
RuleIteration(txns, cols, rule, rts) ==
    LET next_batch == NextBatch(txns, cols, rule)
    IN  IF Len(next_batch) = 0 THEN cols
        ELSE UpdateFrame(cols, ApplyConditions(txns, rule, next_batch, rts, 1), rule)

\* The orders the criteria columns of a rule frame can come in (rule.index
\* is the column order of the frame, line 383).
ConditionOrders ==
    {order \in [1..Len(ConditionColumns) -> Range(ConditionColumns)] :
        \A a, b \in 1..Len(ConditionColumns) : a # b => order[a] # order[b]}

\* Step 2 of the loop body for a rule frame whose criteria columns come in
\* the given order.
RECURSIVE ApplyConditionsInOrder(_, _, _, _, _, _)
ApplyConditionsInOrder(order, txns, rule, batch, rts, k) ==
    IF k > Len(order) \/ Len(batch) = 0 THEN batch
    ELSE ApplyConditionsInOrder(order, txns, rule,
            ApplyCondition(txns, order[k], rule[order[k]], batch, rts),
            rts, k + 1)

\* One iteration of the loop for that rule frame.
RuleIterationInOrder(order, txns, cols, rule, rts) ==
    LET next_batch == NextBatch(txns, cols, rule)
    IN  IF Len(next_batch) = 0 THEN cols
        ELSE UpdateFrame(cols, ApplyConditionsInOrder(order, txns, rule, next_batch, rts, 1),
                         rule)

\* rules[rules["region_country_code"].isin(jurisdiction_list)]
RulesToEvaluate(txns, rls) ==
    SelectSeq(rls, LAMBDA r :
        \E p \in 1..Len(txns) : txns[p].jurisdiction_assigned = r.region_country_code)

RulesIdle ==
    /\ ru_pc = "idle"
    /\ transactions = <<>>
    /\ rules = <<>>
    /\ rates = <<>>
    /\ rules_to_evaluate = <<>>
    /\ ru_i = 0
    /\ itx = <<>>

RulesStart ==
    /\ ru_pc = "start"
    /\ transactions \in SeqsUpTo(TransactionRows, MaxTxns)
    /\ rules \in RuleTables
    /\ rates = RateTable
    /\ rules_to_evaluate = <<>>
    /\ ru_i = 0
    /\ itx = <<>>

\* Lines 336-347: narrow the rules, initialise the interchange_* columns.
EvalInitialize ==
    /\ ru_pc = "start"
    /\ rules_to_evaluate' = RulesToEvaluate(transactions, rules)
    /\ itx' = [p \in 1..Len(transactions) |-> UnboundColumns]
    /\ ru_i' = 1
    /\ ru_pc' = "loop"
    /\ UNCHANGED <<transactions, rules, rates, ru_others>>

\* Lines 372-396: the loop body for the next rule.
EvalRule ==
    /\ ru_pc = "loop"
    /\ ru_i <= Len(rules_to_evaluate)
    /\ itx' = RuleIteration(transactions, itx, rules_to_evaluate[ru_i], rates)
    /\ ru_i' = ru_i + 1
    /\ UNCHANGED <<ru_pc, transactions, rules, rates, rules_to_evaluate, ru_others>>

\* Lines 398-400: the loop is over, the frame is returned.
EvalReturn ==
    /\ ru_pc = "loop"
    /\ ru_i > Len(rules_to_evaluate)
    /\ ru_pc' = "done"
    /\ UNCHANGED <<transactions, rules, rates, rules_to_evaluate, ru_i, itx, ru_others>>

RulesNext == EvalInitialize \/ EvalRule \/ EvalReturn

---------------------------------------------------------------------------
(* Stage row contracts: extract, clean, calculate, interchange, store      *)
(*                                                                         *)
(* A frame is a sequence of rows in file order.  Every row carries idx,    *)
(* its pandas index label, and for each group of columns the raw record    *)
(* the values of that group were computed from (NoRow when the cell is     *)
(* NaN).  The raw frame has labels 1..n and raw row p is record p.         *)

MaxRows == 2

MaxDefs == 2

MaxCountries == 2

NoRow == 0

\* visa_field.secondary_identifier: empty when the field applies to every
\* record, else the literal found at the secondary identifier position.
SecondaryIdentifiers == {"", "A", "B"}

CountryCodes == {"PE", "US"}

\* A raw record: the literal at its secondary identifier position and the
\* merchant country code it carries.
RawRows == [secondary : SecondaryIdentifiers \ {""}, merchant_country_code : CountryCodes]

\* Index labels of a frame, in row order.
Index(df) == [p \in 1..Len(df) |-> df[p].idx]

\* The row of df carrying label l (labels of an artifact are unique).
Loc(df, l) == df[CHOOSE p \in 1..Len(df) : df[p].idx = l]

HasLabel(df, l) == \E p \in 1..Len(df) : df[p].idx = l

\* extract.py lines 68-81: the rows a field definition reads.
DataView(data, fd) ==
    IF fd = ""
        THEN data
        ELSE SelectSeq(data, LAMBDA r : raw[r.t].secondary = fd)

\* The index of pd.concat(series, axis=1): the union of the indexes, each
\* label at its first appearance.
AppendMissing(a, b) == a \o SelectSeq(b, LAMBDA l : l \notin Range(a))

RECURSIVE UnionIndex(_)
UnionIndex(indexes) ==
    IF indexes = <<>>
        THEN <<>>
        ELSE AppendMissing(Head(indexes), UnionIndex(Tail(indexes)))

\* files.read_parquet of the raw artifact: labels and records 1..n.
RawFrame == [p \in 1..Len(raw) |-> [idx |-> p, t |-> p]]

\* extract.py lines 66-90: one series per field definition over its data
\* view, then the column-wise concat; a cell is filled from the row with
\* the same label.
ExtractFrame(data, defs) ==
    LET index == UnionIndex([k \in 1..Len(defs) |-> Index(DataView(data, defs[k]))])
    IN  [p \in 1..Len(index) |-> [idx |-> index[p], t |-> Loc(data, index[p]).t]]

\* clean.py lines 167-171: every column is cleaned value by value and the
\* columns, which share the index of the extracted frame, are concatenated.
CleanFrame(data) == [p \in 1..Len(data) |-> [idx |-> data[p].idx, t |-> data[p].t]]

\* calculate.py lines 32-43 and the pd.Series(np.select(...)) fields: the
\* result is renumbered 1..n, its row p computed from row p of the input.
RangedSeries(data) == [p \in 1..Len(data) |-> [idx |-> p, t |-> data[p].t]]

\* Fields computed column-wise from the input (business_application_id,
\* issuer_bin_8, ...): the result keeps the index of the input.
KeptSeries(data) == [p \in 1..Len(data) |-> [idx |-> data[p].idx, t |-> data[p].t]]

\* pd.merge(source, country, how="left", on="merchant_country_code"): every
\* input row once per country row with its code, once when there is none.
CountryMatches(t) ==
    Cardinality({k \in 1..Len(country) : country[k] = raw[t].merchant_country_code})

RECURSIVE Repeat(_, _)
Repeat(x, n) == IF n = 0 THEN <<>> ELSE <<x>> \o Repeat(x, n - 1)

RECURSIVE MergeCountry(_)
MergeCountry(data) ==
    IF data = <<>>
        THEN <<>>
        ELSE LET m == CountryMatches(Head(data).t)
             IN  Repeat(Head(data).t, IF m = 0 THEN 1 ELSE m) \o MergeCountry(Tail(data))

\* calculate.py lines 555-602 (and 412-493): the merged frame is numbered
\* 1..m and the series computed from it keeps that numbering.
JurisdictionSeries(data) ==
    LET merged == MergeCountry(data)
    IN  [q \in 1..Len(merged) |-> [idx |-> q, t |-> merged[q]]]

CellOf(series, l) == IF HasLabel(series, l) THEN Loc(series, l).t ELSE NoRow

\* calculate.py lines 1148-1157: the calculated columns side by side, in the
\* order of BASEII_FIELDS (ardef_country first, then business_application_id,
\* then jurisdiction_assigned).
CalculateFrame(data) ==
    LET ranged == RangedSeries(data)
        kept   == KeptSeries(data)
        juris  == JurisdictionSeries(data)
        index  == UnionIndex(<<Index(ranged), Index(kept), Index(juris)>>)
    IN  [p \in 1..Len(index) |->
            [idx          |-> index[p],
             ardef        |-> CellOf(ranged, index[p]),
             application  |-> CellOf(kept, index[p]),
             jurisdiction |-> CellOf(juris, index[p])]]

\* transactions.join(calculated, how="left"): the rows of the left frame,
\* each with the right row carrying its label.
JoinLeft(left, right, column) ==
    [p \in 1..Len(left) |-> CellOf([q \in 1..Len(right) |->
                                       [idx |-> right[q].idx, t |-> right[q][column]]],
                                   left[p].idx)]

\* interchange.py lines 434-449: the joined frame goes through the rule
\* evaluation, which returns a frame with the index of the clean artifact;
\* the criteria of a row are read from the calculated row with its label.
InterchangeFrame(cln, cal) ==
    LET juris == JoinLeft(cln, cal, "jurisdiction")
    IN  [p \in 1..Len(cln) |->
            [idx |-> cln[p].idx, t |-> cln[p].t, jurisdiction |-> juris[p]]]

\* store.py lines 46-47: clean joined with calculated joined with interchange.
StoreFrame(cln, cal, itxf) ==
    LET ardef == JoinLeft(cln, cal, "ardef")
        appl  == JoinLeft(cln, cal, "application")
        juris == JoinLeft(cln, cal, "jurisdiction")
        fees  == JoinLeft(cln, itxf, "t")
    IN  [p \in 1..Len(cln) |->
            [idx |-> cln[p].idx, t |-> cln[p].t, ardef |-> ardef[p],
             application |-> appl[p], jurisdiction |-> juris[p],
             interchange |-> fees[p]]]

StagesIdle ==
    /\ st_pc = "idle"
    /\ raw = <<>>
    /\ field_defs = <<>>
    /\ country = <<>>
    /\ ext_df = <<>>
    /\ cln_df = <<>>
    /\ cal_df = <<>>
    /\ itx_df = <<>>
    /\ opr_df = <<>>

\* The raw artifact of a file is on disk and the configuration is loaded.
StagesStart ==
    /\ st_pc = "extract"
    /\ raw \in SeqsUpTo(RawRows, MaxRows)
    /\ field_defs \in SeqsUpTo(SecondaryIdentifiers, MaxDefs)
    /\ country \in SeqsUpTo(CountryCodes, MaxCountries)
    /\ ext_df = <<>>
    /\ cln_df = <<>>
    /\ cal_df = <<>>
    /\ itx_df = <<>>
    /\ opr_df = <<>>

\* extract_baseii_fields; pd.concat of an empty list raises ValueError.
ExtractBaseiiFields ==
    /\ st_pc = "extract"
    /\ IF field_defs = <<>>
          THEN /\ st_pc' = "failed"
               /\ UNCHANGED ext_df
          ELSE /\ ext_df' = ExtractFrame(RawFrame, field_defs)
               /\ st_pc' = "clean"
    /\ UNCHANGED <<raw, field_defs, country, cln_df, cal_df, itx_df, opr_df, st_others>>

\* clean_baseii_fields
CleanBaseiiFields ==
    /\ st_pc = "clean"
    /\ cln_df' = CleanFrame(ext_df)
    /\ st_pc' = "calculate"
    /\ UNCHANGED <<raw, field_defs, country, ext_df, cal_df, itx_df, opr_df, st_others>>

\* calculate_baseii_fields
CalculateBaseiiFields ==
    /\ st_pc = "calculate"
    /\ cal_df' = CalculateFrame(cln_df)
    /\ st_pc' = "interchange"
    /\ UNCHANGED <<raw, field_defs, country, ext_df, cln_df, itx_df, opr_df, st_others>>

\* calculate_baseii_interchange
CalculateBaseiiInterchange ==
    /\ st_pc = "interchange"
    /\ itx_df' = InterchangeFrame(cln_df, cal_df)
    /\ st_pc' = "store"
    /\ UNCHANGED <<raw, field_defs, country, ext_df, cln_df, cal_df, opr_df, st_others>>

\* store_baseii_file
StoreBaseiiFile ==
    /\ st_pc = "store"
    /\ opr_df' = StoreFrame(cln_df, cal_df, itx_df)
    /\ st_pc' = "done"
    /\ UNCHANGED <<raw, field_defs, country, ext_df, cln_df, cal_df, itx_df, st_others>>

StagesNext ==
    \/ ExtractBaseiiFields
    \/ CleanBaseiiFields
    \/ CalculateBaseiiFields
    \/ CalculateBaseiiInterchange
    \/ StoreBaseiiFile

---------------------------------------------------------------------------
(* The interchange stage run on a calendar day, and run again              *)
(*                                                                         *)
(* Dates are day numbers; NullDate is a NULL (or unparsable) date cell.    *)

MaxDay == 3

Days == 1..MaxDay

NullDate == 0

\* Rows of the visa_rules table: a rule without criteria and its validity.
VisaRuleRows(id) ==
    [rule : {RuleRow(r, id, Blank, Blank, Blank) : r \in Jurisdictions},
     valid_from : Days \cup {NullDate},
     valid_until : Days \cup {NullDate}]

VisaRuleTables ==
    {a \cup b : a \in {{}} \cup {{r} : r \in VisaRuleRows(10)},
                b \in {{}} \cup {{r} : r \in VisaRuleRows(20)}}

MergedRows ==
    [jurisdiction_assigned : Jurisdictions, draft_code : {"05"},
     source_amount : {500}, source_currency_code : {"840"}, timeliness : {2}]

\* interchange.py line 116: df[date_cols].fillna(date.today())
FillNa(d, day) == IF d = NullDate THEN day ELSE d

\* interchange.py lines 116-118: the rules valid on the file date, sorted.
GetVisaRuleDefinitions(table, file_date, day) ==
    SortRules({r.rule : r \in
        {x \in table : /\ file_date >= FillNa(x.valid_from, day)
                       /\ file_date <= FillNa(x.valid_until, day)}})

\* interchange.py lines 372-396: the loop over the rules to evaluate.
RECURSIVE EvaluateLoop(_, _, _, _)
EvaluateLoop(txns, cols, rls, rts) ==
    IF rls = <<>>
        THEN cols
        ELSE EvaluateLoop(txns, RuleIteration(txns, cols, Head(rls), rts), Tail(rls), rts)

\* interchange.py lines 330-400: _evaluate_interchange_fees as a function.
EvaluateInterchangeFees(txns, rls, rts) ==
    LET cols == EvaluateLoop(txns, [p \in 1..Len(txns) |-> UnboundColumns],
                             RulesToEvaluate(txns, rls), rts)
    IN  [p \in 1..Len(txns) |->
            [source_currency_code |-> txns[p].source_currency_code,
             source_amount |-> txns[p].source_amount,
             interchange |-> cols[p]]]

RerunIdle ==
    /\ rr_pc = "idle"
    /\ file_processing_date = NullDate
    /\ visa_rules = {}
    /\ merged_data = <<>>
    /\ today = NullDate
    /\ itx_artifact = <<>>
    /\ itx_previous = <<>>

\* The clean and calculated artifacts of a file and the metadata tables.
RerunStart ==
    /\ rr_pc = "first"
    /\ file_processing_date \in Days
    /\ visa_rules \in VisaRuleTables
    /\ merged_data \in SeqsUpTo(MergedRows, MaxTxns)
    /\ today = NullDate
    /\ itx_artifact = <<>>
    /\ itx_previous = <<>>

\* calculate_baseii_interchange on calendar day `day`: the artifact is
\* overwritten (files.py line 126).
RunInterchange(day) ==
    /\ today' = day
    /\ itx_previous' = itx_artifact
    /\ itx_artifact' =
           EvaluateInterchangeFees(
               merged_data,
               GetVisaRuleDefinitions(visa_rules, file_processing_date, day),
               RateTable)
    /\ UNCHANGED <<file_processing_date, visa_rules, merged_data, rr_others>>

FirstRun ==
    /\ rr_pc = "first"
    /\ \E day \in Days : RunInterchange(day)
    /\ rr_pc' = "second"

\* The same inputs, the same tables, the same or a later day.
SecondRun ==
    /\ rr_pc = "second"
    /\ \E day \in Days : day >= today /\ RunInterchange(day)
    /\ rr_pc' = "done"

RerunNext == FirstRun \/ SecondRun

---------------------------------------------------------------------------
(* Stage invocations and the run-all orchestrator                          *)
(*                                                                         *)
(* An artifact is named by the file it belongs to, its subdirectory and,   *)
(* for the VSS family, the VSS type.  A stage invocation is driven either  *)
(* by run_demo.py or by a caller invoking the stage function on its own.   *)

MaxCalls == 2

VSS_TYPES == <<"110", "120", "130", "140">>

RunFile == "EBGR"

DemoFile == "DEMO"

Artifact(file, subdir, vss_type) ==
    [file |-> file, subdir |-> subdir, vss_type |-> vss_type]

\* run_demo.py lines 15-110: the calls of the orchestrator, in order, after
\* the import of the stage modules at line 2.
RunDemoCalls ==
    <<"import_interchange",
      "transform_baseii_drafts", "transform_vss_records",
      "extract_baseii_fields", "extract_vss_fields",
      "clean_baseii_fields", "clean_vss_fields",
      "calculate_baseii_fields", "calculate_vss_fields",
      "calculate_baseii_interchange",
      "store_baseii_file", "store_vss_file">>

\* The BASE II stage functions, Transform to Store.
BaseiiCalls ==
    <<"transform_baseii_drafts", "extract_baseii_fields", "clean_baseii_fields",
      "calculate_baseii_fields", "calculate_baseii_interchange", "store_baseii_file">>

\* The subdirectories a BASE II stage reads (its origin_subdir defaults).
BaseiiInputs(c) ==
    CASE c = "transform_baseii_drafts" -> {}
      [] c = "extract_baseii_fields" -> {"100-BASEII_RAW_DRAFTS"}
      [] c = "clean_baseii_fields" -> {"200-BASEII_EXT_DRAFTS"}
      [] c = "calculate_baseii_fields" -> {"300-BASEII_CLN_DRAFTS"}
      [] c = "calculate_baseii_interchange" ->
             {"300-BASEII_CLN_DRAFTS", "400-BASEII_CAL_DRAFTS"}
      [] c = "store_baseii_file" ->
             {"300-BASEII_CLN_DRAFTS", "400-BASEII_CAL_DRAFTS", "500-BASEII_ITX_DRAFTS"}

\* The subdirectory a BASE II stage writes (its target_subdir default).
BaseiiTarget(c) ==
    CASE c = "transform_baseii_drafts" -> "100-BASEII_RAW_DRAFTS"
      [] c = "extract_baseii_fields" -> "200-BASEII_EXT_DRAFTS"
      [] c = "clean_baseii_fields" -> "300-BASEII_CLN_DRAFTS"
      [] c = "calculate_baseii_fields" -> "400-BASEII_CAL_DRAFTS"
      [] c = "calculate_baseii_interchange" -> "500-BASEII_ITX_DRAFTS"
      [] c = "store_baseii_file" -> "BASEII_DRAFTS"

\* Reading an artifact that is not in the store fails the stage.
ReadFails(as) == ~(as \subseteq artifacts)

\* An invocation ends: it returned, or an exception left it.
Returns ==
    /\ call' = "none"
    /\ vss_i' = 0
    /\ outcome' = "returned"

Raises ==
    /\ call' = "none"
    /\ vss_i' = 0
    /\ outcome' = "raised"

\* fs.write_parquet of one artifact by the running invocation.
Writes(a) ==
    /\ artifacts' = artifacts \cup {a}
    /\ written' = written \cup {a}

\* A BASE II stage function on a file: read the inputs, compute, and write
\* the one artifact last.  A storage or configuration error raises.
BaseiiStage(name, c, file) ==
    /\ call = name
    /\ IF ReadFails({Artifact(file, s, "") : s \in BaseiiInputs(c)})
          THEN /\ Raises
               /\ fault' = TRUE
               /\ UNCHANGED <<artifacts, written>>
          ELSE \E ok \in BOOLEAN :
                  IF ok
                     THEN /\ Writes(Artifact(file, BaseiiTarget(c), ""))
                          /\ Returns
                          /\ UNCHANGED fault
                     ELSE /\ Raises
                          /\ fault' = TRUE
                          /\ UNCHANGED <<artifacts, written>>
    /\ UNCHANGED <<driver, or_pc, invoked, vss_present, or_others>>

\* interchange.py line 461: importing the module runs the interchange stage
\* on the DEMO file.
ImportInterchange ==
    BaseiiStage("import_interchange", "calculate_baseii_interchange", DemoFile)

RunTransformBaseiiDrafts ==
    BaseiiStage("transform_baseii_drafts", "transform_baseii_drafts", RunFile)

RunExtractBaseiiFields ==
    BaseiiStage("extract_baseii_fields", "extract_baseii_fields", RunFile)

RunCleanBaseiiFields ==
    BaseiiStage("clean_baseii_fields", "clean_baseii_fields", RunFile)

RunCalculateBaseiiFields ==
    BaseiiStage("calculate_baseii_fields", "calculate_baseii_fields", RunFile)

RunCalculateBaseiiInterchange ==
    BaseiiStage("calculate_baseii_interchange", "calculate_baseii_interchange", RunFile)

RunStoreBaseiiFile ==
    BaseiiStage("store_baseii_file", "store_baseii_file", RunFile)

\* The end of one pass of a `for vss_type in vss_types` loop.
Continue ==
    IF vss_i = Len(VSS_TYPES)
        THEN Returns
        ELSE /\ vss_i' = vss_i + 1
             /\ UNCHANGED <<call, outcome>>

\* Work of a VSS stage outside its loop (loading the file, reading the file
\* date): it completes or raises.
VssPrelude(c) ==
    /\ call = c
    /\ vss_i = 0
    /\ \E ok \in BOOLEAN :
          IF ok
             THEN /\ vss_i' = 1
                  /\ UNCHANGED <<call, outcome, fault>>
             ELSE /\ Raises
                  /\ fault' = TRUE
    /\ UNCHANGED <<driver, or_pc, invoked, artifacts, written, vss_present, or_others>>

\* One pass of the loop of a VSS stage for the type at vss_i: read the
\* inputs of the type, compute, write the artifact of the type; the except
\* clause logs and re-raises.
VssPass(c, inputs, target) ==
    /\ call = c
    /\ vss_i \in 1..Len(VSS_TYPES)
    /\ LET t == VSS_TYPES[vss_i]
       IN  IF ReadFails({Artifact(RunFile, s, t) : s \in inputs})
              THEN /\ Raises
                   /\ fault' = TRUE
                   /\ UNCHANGED <<artifacts, written>>
              ELSE \E ok \in BOOLEAN :
                      IF ok
                         THEN /\ Writes(Artifact(RunFile, target, t))
                              /\ Continue
                              /\ UNCHANGED fault
                         ELSE /\ Raises
                              /\ fault' = TRUE
                              /\ UNCHANGED <<artifacts, written>>
    /\ UNCHANGED <<driver, or_pc, invoked, vss_present, or_others>>

\* transform.py lines 118-127
TransformVssLoad == VssPrelude("transform_vss_records")

\* transform.py lines 132-161: a type without records is skipped.
TransformVssType ==
    /\ call = "transform_vss_records"
    /\ vss_i \in 1..Len(VSS_TYPES)
    /\ IF VSS_TYPES[vss_i] \notin vss_present
          THEN /\ Continue
               /\ UNCHANGED <<artifacts, written, fault, driver, or_pc, invoked,
                              vss_present, or_others>>
          ELSE VssPass("transform_vss_records", {}, "100-BASEII_RAW_VSS")

\* extract.py lines 134-182
ExtractVssType ==
    VssPass("extract_vss_fields", {"100-BASEII_RAW_VSS"}, "200-BASEII_EXT_VSS")

\* clean.py line 214
CleanVssRetrieveFileDate == VssPrelude("clean_vss_fields")

\* clean.py lines 218-244
CleanVssType ==
    VssPass("clean_vss_fields", {"200-BASEII_EXT_VSS"}, "300-BASEII_CLN_VSS")

\* store.py lines 100-132
StoreVssType ==
    VssPass("store_vss_file", {"300-BASEII_CLN_VSS", "400-BASEII_CAL_VSS"}, "BASEII_VSS")

\* calculate.py lines 1247-1248: the function takes no parameter and its
\* body raises, so every call of it raises.
CalculateVssFields ==
    /\ call = "calculate_vss_fields"
    /\ Raises
    /\ UNCHANGED <<driver, or_pc, invoked, artifacts, written, fault, vss_present,
                   or_others>>

\* A stage function starts: nothing is written by it yet.
Begin(c) ==
    /\ call' = c
    /\ vss_i' = IF c \in {"extract_vss_fields", "store_vss_file"} THEN 1 ELSE 0
    /\ written' = {}
    /\ outcome' = "none"
    /\ invoked' = Append(invoked, c)

\* run_demo.py: the next call of the script; an exception that left the
\* previous call ends the script.
RunDemoInvoke ==
    /\ driver = "run_demo"
    /\ call = "none"
    /\ outcome # "raised"
    /\ or_pc <= Len(RunDemoCalls)
    /\ Begin(RunDemoCalls[or_pc])
    /\ or_pc' = or_pc + 1
    /\ UNCHANGED <<driver, artifacts, fault, vss_present, or_others>>

\* A caller invokes one stage function on the file.
DirectInvoke ==
    /\ driver = "direct"
    /\ call = "none"
    /\ Len(invoked) < MaxCalls
    /\ \E c \in Range(RunDemoCalls) : Begin(c)
    /\ UNCHANGED <<driver, or_pc, artifacts, fault, vss_present, or_others>>

OrchIdle ==
    /\ driver = "none"
    /\ or_pc = 0
    /\ call = "none"
    /\ vss_i = 0
    /\ artifacts = {}
    /\ written = {}
    /\ outcome = "none"
    /\ invoked = <<>>
    /\ fault = FALSE
    /\ vss_present = {}

\* The landing file is in place; the artifacts of the DEMO file may be.
OrchStart ==
    /\ driver \in {"run_demo", "direct"}
    /\ or_pc = 1
    /\ call = "none"
    /\ vss_i = 0
    /\ artifacts \in {{}, {Artifact(DemoFile, "300-BASEII_CLN_DRAFTS", ""),
                           Artifact(DemoFile, "400-BASEII_CAL_DRAFTS", "")}}
    /\ written = {}
    /\ outcome = "none"
    /\ invoked = <<>>
    /\ fault = FALSE
    /\ vss_present \in SUBSET Range(VSS_TYPES)

OrchNext ==
    \/ RunDemoInvoke
    \/ DirectInvoke
    \/ ImportInterchange
    \/ RunTransformBaseiiDrafts
    \/ TransformVssLoad
    \/ TransformVssType
    \/ RunExtractBaseiiFields
    \/ ExtractVssType
    \/ RunCleanBaseiiFields
    \/ CleanVssRetrieveFileDate
    \/ CleanVssType
    \/ RunCalculateBaseiiFields
    \/ CalculateVssFields
    \/ RunCalculateBaseiiInterchange
    \/ RunStoreBaseiiFile
    \/ StoreVssType

---------------------------------------------------------------------------
(* The clean stage of a BASE II file (clean_baseii_fields)                 *)

MaxColumns == 2

\* Names of extracted columns.
ColumnName(k) == <<"account_number", "source_amount", "purchase_date", "merchant_name">>[k]

ColumnNames == {ColumnName(k) : k \in 1..MaxColumns}

\* float_decimals of a row whose cell is NULL: to_numeric(errors="coerce")
\* makes it NaN, and NaN > 0 is False like any value that is not positive.
NullDecimals == -1

\* strftime formats (they start with "%").
PercentFormats == {"%Y%m%d"}

DateFormats == {"", "!MMDD", "!YDDD", "!YYYYDDD", "DDMMYY"} \cup PercentFormats

FieldDefinition(name, type, decimals, format) ==
    [column_name |-> name, column_type |-> type,
     float_decimals |-> decimals, date_format |-> format]

\* Rows of visa_fields for one column name.
FieldDefinitionsOf(name) ==
    {FieldDefinition(name, type, NullDecimals, "") : type \in {"str", "int", "bool"}}
    \cup {FieldDefinition(name, "float", d, "") : d \in {NullDecimals, 0, 2}}
    \cup {FieldDefinition(name, "date", NullDecimals, f) : f \in DateFormats}

\* The visa_fields table of the record type: a column name has at most one
\* row (extract writes one column per row and parquet refuses two columns
\* with one name).
RECURSIVE FieldDefinitionTablesOver(_)
FieldDefinitionTablesOver(names) ==
    IF names = {}
        THEN {{}}
        ELSE LET n == CHOOSE x \in names : TRUE
             IN  {row \cup rest :
                     row \in {{}} \cup {{d} : d \in FieldDefinitionsOf(n)},
                     rest \in FieldDefinitionTablesOver(names \ {n})}

\* The columns of the extracted artifact, in order.
ExtractedColumns ==
    {s \in SeqsUpTo(ColumnNames, MaxColumns) :
        \A i, j \in 1..Len(s) : i # j => s[i] # s[j]}

\* The target artifact: absent, or what an earlier run wrote.
Absent == [columns |-> <<>>, run |-> "absent"]

Earlier == [columns |-> <<>>, run |-> "earlier"]

\* clean.py line 116: field_defs[field_defs["column_name"] == name]
Matching(defs, name) == {d \in defs : d.column_name = name}

\* clean.py lines 67-105: the formats _parse_dates handles.
ParseDatesRaises(date_format) ==
    /\ date_format \notin PercentFormats
    /\ date_format \notin {"!MMDD", "!YDDD", "!YYYYDDD"}

\* The same without the check of float_decimals.
CleanFieldValuesRaisesNoDecimalsCheck(defs, name) ==
    \/ Matching(defs, name) = {}
    \/ LET definition == CHOOSE d \in Matching(defs, name) : TRUE
       IN  CASE definition.column_type = "str" -> FALSE
             [] definition.column_type = "int" -> FALSE
             [] definition.column_type = "float" -> FALSE
             [] definition.column_type = "date" ->
                    \/ definition.date_format = ""
                    \/ ParseDatesRaises(definition.date_format)
             [] OTHER -> TRUE

\* clean.py lines 115-137: whether _clean_field_values raises for a column.
\* .iloc[0] of no row raises IndexError; the match statement raises
\* ValueError or NotImplementedError.
CleanFieldValuesRaises(defs, name) ==
    \/ Matching(defs, name) = {}
    \/ LET definition == CHOOSE d \in Matching(defs, name) : TRUE
       IN  CASE definition.column_type = "str" -> FALSE
             [] definition.column_type = "int" -> FALSE
             [] definition.column_type = "float" -> ~(definition.float_decimals > 0)
             [] definition.column_type = "date" ->
                    \/ definition.date_format = ""
                    \/ ParseDatesRaises(definition.date_format)
             [] OTHER -> TRUE

CleanIdle ==
    /\ cl_pc = "idle"
    /\ columns = <<>>
    /\ visa_fields = {}
    /\ cl_i = 0
    /\ fields = <<>>
    /\ cln_before = Absent
    /\ cln_artifact = Absent

\* Lines 151-163: the definitions and the extracted artifact are read.
CleanStart ==
    /\ cl_pc = "loop"
    /\ columns \in ExtractedColumns
    /\ visa_fields \in FieldDefinitionTablesOver(ColumnNames)
    /\ cl_i = 1
    /\ fields = <<>>
    /\ cln_before \in {Absent, Earlier}
    /\ cln_artifact = cln_before

\* Lines 168-170: one pass of the loop over the columns.
CleanFieldValues ==
    /\ cl_pc = "loop"
    /\ cl_i <= Len(columns)
    /\ IF CleanFieldValuesRaises(visa_fields, columns[cl_i])
          THEN /\ cl_pc' = "raised"
               /\ UNCHANGED <<cl_i, fields>>
          ELSE /\ fields' = Append(fields, columns[cl_i])
               /\ cl_i' = cl_i + 1
               /\ UNCHANGED cl_pc
    /\ UNCHANGED <<columns, visa_fields, cln_before, cln_artifact, cl_others>>

\* Lines 171-173: concat of the cleaned columns (ValueError when there is
\* none) and the write of the target artifact.
CleanWrite ==
    /\ cl_pc = "loop"
    /\ cl_i > Len(columns)
    /\ IF fields = <<>>
          THEN /\ cl_pc' = "raised"
               /\ UNCHANGED cln_artifact
          ELSE /\ cln_artifact' = [columns |-> fields, run |-> "this"]
               /\ cl_pc' = "done"
    /\ UNCHANGED <<columns, visa_fields, cl_i, fields, cln_before, cl_others>>

CleanNext == CleanFieldValues \/ CleanWrite

---------------------------------------------------------------------------
(* The transform stage of a BASE II file: _load_as_ctf, the selection of   *)
(* the draft lines, the framer and the write                               *)
(*                                                                         *)
(* A line of the landing file is described by its length, its first two    *)
(* characters and its characters at offsets 3 and 5.                       *)

MaxFileLines == 2

LineLengths == {3, 168, 170, 172}

VALID_TC == {"05", "06", "07", "25", "26", "27"}

\* No character at the offset (the line is too short).
NoChar == -1

\* The non-empty lines read_plaintext returns.
FileLines ==
    [length : LineLengths, tc : {"05", "90"}, c3 : {0, 1}, c5 : {0, 1}]

\* line.str.slice(stop=2) + line.str.slice(start=4): the characters at
\* offsets 2 and 3 go, what follows moves two places down.
DropOffsets2And3(l) ==
    [length |-> (IF l.length < 2 THEN l.length ELSE 2)
                + (IF l.length > 4 THEN l.length - 4 ELSE 0),
     tc |-> l.tc,
     c3 |-> IF l.length > 5 THEN l.c5 ELSE NoChar,
     origin |-> l.origin]

\* A line as read: its character at offset 3 exists when it is long enough.
AsRead(l) ==
    [length |-> l.length, tc |-> l.tc,
     c3 |-> IF l.length > 3 THEN l.c3 ELSE NoChar,
     origin |-> l.origin]

\* records["lines"]: the lines with their position in the file.
Records(lines) ==
    [p \in 1..Len(lines) |->
        [length |-> lines[p].length, tc |-> lines[p].tc,
         c3 |-> lines[p].c3, c5 |-> lines[p].c5, origin |-> p]]

\* The same, returning the lines as read for an unknown header length.
CtfRecordsKeepUnknown(lines) ==
    LET records == Records(lines)
    IN  IF lines[1].length = 170
            THEN [p \in 1..Len(records) |-> DropOffsets2And3(records[p])]
            ELSE [p \in 1..Len(records) |-> AsRead(records[p])]

\* transform.py lines 18-24: what _load_as_ctf returns for a file with at
\* least one line.
CtfRecords(lines) ==
    LET records == Records(lines)
    IN  IF lines[1].length = 168
            THEN [p \in 1..Len(records) |-> AsRead(records[p])]
            ELSE IF lines[1].length = 170
                    THEN [p \in 1..Len(records) |-> DropOffsets2And3(records[p])]
                    ELSE <<>>

\* transform.py lines 59-62: the lines of the draft transaction codes with a
\* sequence digit of VALID_TCSN at offset 3.
SelectDrafts(ctf) ==
    SelectSeq(ctf, LAMBDA l : l.tc \in VALID_TC /\ l.c3 \in VALID_TCSN)

\* transform.py line 63: the framed drafts, a cell naming the file line it
\* holds (EmptyCell when it holds none).
FrameDrafts(drafts) ==
    LET keys == [i \in 1..Len(drafts) |-> drafts[i].c3]
        frame == Pivot(keys, RecordOf(keys), EmptyCell)
    IN  [r \in 1..Len(frame) |->
            [c \in VALID_TCSN |->
                IF frame[r][c] = EmptyCell THEN EmptyCell
                ELSE drafts[frame[r][c]].origin]]

NoArtifact == [written |-> FALSE, rows |-> <<>>]

LoadIdle ==
    /\ ld_pc = "idle"
    /\ file_lines = <<>>
    /\ empty_dtype = "none"
    /\ ctf_records = <<>>
    /\ error_logged = FALSE
    /\ raw_drafts = NoArtifact

\* The landing file, and the dtype the pandas build gives pd.Series([]).
LoadStart ==
    /\ ld_pc = "start"
    /\ file_lines \in SeqsUpTo(FileLines, MaxFileLines)
    /\ empty_dtype \in {"object", "float64"}
    /\ ctf_records = <<>>
    /\ error_logged = FALSE
    /\ raw_drafts = NoArtifact

\* transform.py lines 17-24; records.iloc[0, 0] raises IndexError when the
\* file has no line (or could not be opened).
LoadAsCtf ==
    /\ ld_pc = "start"
    /\ IF file_lines = <<>>
          THEN /\ ld_pc' = "raised"
               /\ UNCHANGED <<ctf_records, error_logged>>
          ELSE /\ ctf_records' = CtfRecords(file_lines)
               /\ error_logged' = (file_lines[1].length \notin {168, 170})
               /\ ld_pc' = "loaded"
    /\ UNCHANGED <<file_lines, empty_dtype, raw_drafts, ld_others>>

\* transform.py lines 59-65; the .str accessor raises AttributeError on the
\* empty float64 series.
TransformBaseiiDrafts ==
    /\ ld_pc = "loaded"
    /\ IF error_logged /\ empty_dtype = "float64"
          THEN /\ ld_pc' = "raised"
               /\ UNCHANGED raw_drafts
          ELSE /\ raw_drafts' = [written |-> TRUE,
                                 rows |-> FrameDrafts(SelectDrafts(ctf_records))]
               /\ ld_pc' = "done"
    /\ UNCHANGED <<file_lines, empty_dtype, ctf_records, error_logged, ld_others>>

LoadNext == LoadAsCtf \/ TransformBaseiiDrafts

---------------------------------------------------------------------------
(* The ARDEF resolver (_get_visa_ardef) and the account binding of         *)
(* calculate_baseii_fields                                                 *)
(*                                                                         *)
(* An ARDEF row is its two range keys and its two dates; the attributes    *)
(* projected from it are named by the row itself.  An account number is    *)
(* the integer its first nine characters spell with "*" read as "0".       *)

MaxArdef == 3

MaxAccounts == 2

ArdefKeys == 0..2

ArdefDates == {1, 2}

AccountNumbers == 0..3

\* The rows db.read_records returns (calculate.py lines 1030-1051), the two
\* keys already numeric.
ArdefRows ==
    [low_key_for_range : ArdefKeys, table_key : ArdefKeys,
     effective_date : ArdefDates, valid_until : {NullDate, 1}]

\* calculate.py lines 1061-1063: an empty valid_until is the file's date.
ValidFor(r, file_date) ==
    LET until == IF r.valid_until = NullDate THEN file_date ELSE r.valid_until
    IN  file_date >= r.effective_date /\ file_date <= until

\* calculate.py lines 1065-1068: table_key ascending, effective_date
\* descending, low_key_for_range ascending.
SortsBefore(a, b) ==
    \/ a.table_key < b.table_key
    \/ /\ a.table_key = b.table_key
       /\ \/ a.effective_date > b.effective_date
          \/ /\ a.effective_date = b.effective_date
             /\ a.low_key_for_range < b.low_key_for_range

\* Rows equal on the three sort columns differ in valid_until only, which
\* nothing reads after the validity filter.
RECURSIVE SortValues(_)
SortValues(S) ==
    IF S = {}
        THEN <<>>
        ELSE LET first == CHOOSE r \in S : \A o \in S : ~SortsBefore(o, r)
             IN  <<first>> \o SortValues(S \ {first})

\* The rows of s at the positions P, in order.
Take(s, P) == LET at == SortedSeq(P) IN [k \in 1..Len(at) |-> s[at[k]]]

\* drop_duplicates(subset=col, keep="first")
DropDuplicates(s, col) ==
    Take(s, {p \in 1..Len(s) : \A q \in 1..(p - 1) : s[q][col] # s[p][col]})

\* The overlap test with a strict comparison.
OverlapStrict(s, p) ==
    p > 1 /\ s[p].low_key_for_range < s[p - 1].table_key

\* calculate.py lines 1071-1072: the row at p starts at or below the
\* table_key of the row before it (shift(1) leaves the first row NaN).
Overlap(s, p) ==
    p > 1 /\ s[p].low_key_for_range <= s[p - 1].table_key

\* calculate.py lines 1063-1073: the rows that survive.
Surviving(rows, file_date) ==
    LET valid == {r \in rows : ValidFor(r, file_date)}
        keyed == DropDuplicates(DropDuplicates(SortValues(valid), "table_key"),
                                "low_key_for_range")
    IN  Take(keyed, {p \in 1..Len(keyed) : ~Overlap(keyed, p)})

\* calculate.py lines 1075-1077: IntervalIndex.from_tuples raises ValueError
\* for an interval whose left side is above its right side.
IntervalRaises(s) ==
    \E p \in 1..Len(s) : s[p].low_key_for_range > s[p].table_key

Interval(r) == [left |-> r.low_key_for_range, right |-> r.table_key]

\* calculate.py line 1111
fill_interval == [left |-> 0, right |-> 0]

Contains(i, a) == i.left <= a /\ a <= i.right

\* calculate.py lines 1106-1117: pd.cut gives an account the interval of
\* ardef_data that contains it and NaN when there is none; NaN is then
\* replaced by fill_interval.
Cut(ardef, a) ==
    IF \E p \in 1..Len(ardef) : Contains(Interval(ardef[p]), a)
        THEN Interval(ardef[CHOOSE p \in 1..Len(ardef) : Contains(Interval(ardef[p]), a)])
        ELSE fill_interval

\* calculate.py lines 1112-1114: add_categories raises ValueError when the
\* new category is one of the categories already.
AddCategoriesRaises(ardef) ==
    \E p \in 1..Len(ardef) : Interval(ardef[p]) = fill_interval

NoRecord == [low_key_for_range |-> -1, table_key |-> -1,
             effective_date |-> NullDate, valid_until |-> NullDate]

\* calculate.py lines 32-43: the left merge of the intervals with ardef_data
\* on account_interval; the result is numbered 1..n in the order of the
\* intervals, a cell is NoRecord where no row of ardef_data has the interval.
GetFromArdef(intervals, ardef) ==
    [p \in 1..Len(intervals) |->
        [idx |-> p,
         t |-> IF \E q \in 1..Len(ardef) : Interval(ardef[q]) = intervals[p]
                   THEN ardef[CHOOSE q \in 1..Len(ardef) : Interval(ardef[q]) = intervals[p]]
                   ELSE NoRecord]]

\* calculate.py line 383: issuer_bin_8 is computed on the column and keeps
\* the index of the clean artifact.
IssuerBin8(data) == [p \in 1..Len(data) |-> [idx |-> data[p].idx, t |-> data[p].account_number]]

NoAccount == -1

\* calculate.py lines 1148-1157: the calculated columns side by side; a cell
\* is filled from the series row carrying the label, NaN when it has none.
CalculatedColumns(data, intervals, ardef) ==
    LET projected == GetFromArdef(intervals, ardef)
        bins      == IssuerBin8(data)
        index     == UnionIndex(<<Index(projected), Index(bins)>>)
    IN  [p \in 1..Len(index) |->
            [idx           |-> index[p],
             ardef_country |-> IF HasLabel(projected, index[p])
                                   THEN Loc(projected, index[p]).t ELSE NoRecord,
             issuer_bin_8  |-> IF HasLabel(bins, index[p])
                                   THEN Loc(bins, index[p]).t ELSE NoAccount]]

\* The index of the clean artifact is the one extract gave it (ExtractFrame):
\* labels of raw records, each once, in first-appearance order of the concat.
CleanIndexes ==
    {s \in SeqsUpTo(1..MaxAccounts, MaxAccounts) :
        \A p, q \in 1..Len(s) : p # q => s[p] # s[q]}

ArdefIdle ==
    /\ ar_pc = "idle"
    /\ visa_ardef = {}
    /\ ar_file_date = NullDate
    /\ clean_accounts = <<>>
    /\ ardef_data = <<>>
    /\ account_interval = <<>>
    /\ ar_cal = <<>>

\* The metadata store holds the ARDEF table and the file's date.
ArdefStart ==
    /\ ar_pc = "resolve"
    /\ visa_ardef \in SubsetsUpTo(ArdefRows, MaxArdef)
    /\ ar_file_date \in ArdefDates
    /\ clean_accounts = <<>>
    /\ ardef_data = <<>>
    /\ account_interval = <<>>
    /\ ar_cal = <<>>

\* The clean artifact of a file is on disk; every ARDEF row is in force.
BindingStart ==
    /\ ar_pc = "calculate"
    /\ visa_ardef \in SubsetsUpTo({r \in ArdefRows : r.effective_date = 1
                                                       /\ r.valid_until = NullDate},
                                   MaxArdef)
    /\ ar_file_date \in ArdefDates
    /\ \E index \in CleanIndexes : \E numbers \in [1..Len(index) -> AccountNumbers] :
          clean_accounts = [p \in 1..Len(index) |->
                               [idx |-> index[p], account_number |-> numbers[p]]]
    /\ ardef_data = <<>>
    /\ account_interval = <<>>
    /\ ar_cal = <<>>

\* The rows of a table whose keys range over one more value, all in force
\* on the file's date.
WideKeys == 0..3

WideArdefRows ==
    [low_key_for_range : WideKeys, table_key : WideKeys,
     effective_date : {1}, valid_until : {NullDate}]

WideStart ==
    /\ ar_pc = "resolve"
    /\ visa_ardef \in SubsetsUpTo(WideArdefRows, MaxArdef)
    /\ ar_file_date \in ArdefDates
    /\ clean_accounts = <<>>
    /\ ardef_data = <<>>
    /\ account_interval = <<>>
    /\ ar_cal = <<>>

\* _get_visa_ardef
GetVisaArdef ==
    /\ ar_pc = "resolve"
    /\ LET surviving == Surviving(visa_ardef, ar_file_date)
       IN  IF IntervalRaises(surviving)
              THEN /\ ar_pc' = "raised"
                   /\ UNCHANGED ardef_data
              ELSE /\ ardef_data' = surviving
                   /\ ar_pc' = "resolved"
    /\ UNCHANGED <<visa_ardef, ar_file_date, clean_accounts, account_interval,
                   ar_cal, ar_others>>

\* calculate_baseii_fields, its ARDEF columns and issuer_bin_8
CalculateArdefFields ==
    /\ ar_pc = "calculate"
    /\ LET surviving == Surviving(visa_ardef, ar_file_date)
           intervals == [p \in 1..Len(clean_accounts) |->
                            Cut(surviving, clean_accounts[p].account_number)]
       IN  IF IntervalRaises(surviving)
              THEN /\ ar_pc' = "raised"
                   /\ UNCHANGED <<ardef_data, account_interval, ar_cal>>
              ELSE IF AddCategoriesRaises(surviving)
                      THEN /\ ar_pc' = "raised"
                           /\ ardef_data' = surviving
                           /\ UNCHANGED <<account_interval, ar_cal>>
                      ELSE /\ ardef_data' = surviving
                           /\ account_interval' = intervals
                           /\ ar_cal' = CalculatedColumns(clean_accounts, intervals, surviving)
                           /\ ar_pc' = "calculated"
    /\ UNCHANGED <<visa_ardef, ar_file_date, clean_accounts, ar_others>>

ArdefNext == GetVisaArdef

BindingNext == CalculateArdefFields

---------------------------------------------------------------------------
(* The jurisdiction fields of calculate_baseii_fields: jurisdiction and    *)
(* jurisdiction_assigned of a draft                                        *)
(*                                                                         *)
(* A transaction carries its merchant country, the country and region of   *)
(* the ARDEF row its account is bound to (NaN for fill_interval), whether  *)
(* its first six or eight account digits or its acquiring identifier are   *)
(* in the client's lists, and its collection-only flag.                    *)

MaxJurRows == 2

NaN == "NaN"

Regions == {"1", "5"}

\* calculate.py lines 415-425: the rows of the country table.
CountryRows == [country_code : CountryCodes, visa_region_code : Regions]

\* The clean rows joined with what _get_from_ardef gives their intervals.
JurisdictionRows ==
    {r \in [merchant_country_code : CountryCodes,
            ardef_country : {"PE", NaN},
            ardef_region : {"5", NaN},
            issuing : {"none", "bin6", "bin8"},
            acquiring : BOOLEAN,
            collection_only_flag : {"C", " "}] :
        (r.ardef_country = NaN) <=> (r.ardef_region = NaN)}

\* == and != of two pandas cells: NaN equals nothing.
Eq(a, b) == a # NaN /\ b # NaN /\ a = b

\* != with a NaN that equals itself.
NeOfValues(a, b) == a # b

Ne(a, b) == ~Eq(a, b)

\* calculate.py lines 435-440: pd.merge(source, country, how="left",
\* on="merchant_country_code"): every source row once per country row with
\* its code, in table order, once with a NaN region when there is none.
CountryMatchesOf(code, table) == SelectSeq(table, LAMBDA c : c.country_code = code)

RECURSIVE MergeOnCountry(_, _, _)
MergeOnCountry(source, table, p) ==
    IF p > Len(source)
        THEN <<>>
        ELSE LET matches == CountryMatchesOf(source[p].merchant_country_code, table)
                 rows == IF matches = <<>>
                             THEN <<[t |-> p, merchant_region_code |-> NaN]>>
                             ELSE [k \in 1..Len(matches) |->
                                     [t |-> p,
                                      merchant_region_code |-> matches[k].visa_region_code]]
             IN  rows \o MergeOnCountry(source, table, p + 1)

\* calculate.py lines 426-442 and 569-582: the merged frame is numbered
\* 1..m; ar_countries and ar_regions are numbered 1..n in source order and
\* joined on the number.
JoinedSource(source, table) ==
    LET merged == MergeOnCountry(source, table, 1)
    IN  [q \in 1..Len(merged) |->
            [merchant_country_code |-> source[merged[q].t].merchant_country_code,
             merchant_region_code  |-> merged[q].merchant_region_code,
             issuing               |-> source[merged[q].t].issuing,
             acquiring             |-> source[merged[q].t].acquiring,
             collection_only_flag  |-> source[merged[q].t].collection_only_flag,
             ardef_country |-> IF q <= Len(source) THEN source[q].ardef_country ELSE NaN,
             ardef_region  |-> IF q <= Len(source) THEN source[q].ardef_region ELSE NaN]]

\* calculate.py lines 443-493: np.select takes the first condition that
\* holds.
JurisdictionOf(r, ftype) ==
    IF /\ Eq(r.merchant_country_code, r.ardef_country)
       /\ ftype = "OUT"
       /\ (r.collection_only_flag = "C" \/ r.issuing = "bin6" \/ r.issuing = "bin8")
        THEN "on-us"
    ELSE IF /\ Eq(r.merchant_country_code, r.ardef_country)
            /\ ftype = "IN"
            /\ (r.collection_only_flag = "C" \/ r.acquiring)
        THEN "on-us"
    ELSE IF Eq(r.merchant_country_code, r.ardef_country)
        THEN "off-us"
    ELSE IF /\ Ne(r.merchant_country_code, r.ardef_country)
            /\ Eq(r.merchant_region_code, r.ardef_region)
        THEN "intraregional"
    ELSE IF /\ Ne(r.merchant_country_code, r.ardef_country)
            /\ Ne(r.merchant_region_code, r.ardef_region)
        THEN "interregional"
    ELSE ""

\* calculate.py lines 583-601: the three assignments, in order.
JurisdictionAssignedOf(r) ==
    LET first  == IF Eq(r.merchant_country_code, r.ardef_country)
                      THEN r.merchant_country_code ELSE ""
        second == IF /\ Ne(r.merchant_country_code, r.ardef_country)
                     /\ Eq(r.merchant_region_code, r.ardef_region)
                      THEN r.ardef_region ELSE first
    IN  IF /\ Ne(r.merchant_country_code, r.ardef_country)
           /\ Ne(r.merchant_region_code, r.ardef_region)
            THEN "9" ELSE second

\* calculate.py lines 1148-1157: both series are numbered 1..m and are
\* concatenated on the number.
JurisdictionColumns(source, table, ftype) ==
    LET joined == JoinedSource(source, table)
    IN  [q \in 1..Len(joined) |->
            [idx |-> q,
             jurisdiction |-> JurisdictionOf(joined[q], ftype),
             jurisdiction_assigned |-> JurisdictionAssignedOf(joined[q])]]

JurisdictionIdle ==
    /\ ju_pc = "idle"
    /\ jur_source = <<>>
    /\ country_table = <<>>
    /\ file_type = "none"
    /\ jur_cal = <<>>

\* The country tables: a country has one region, and nothing keeps a row
\* from being stored twice (run_init_database.py declares no key).
CountryTables ==
    {s \in SeqsUpTo(CountryRows, MaxCountries) :
        \A a, b \in 1..Len(s) :
            s[a].country_code = s[b].country_code
                => s[a].visa_region_code = s[b].visa_region_code}

\* The clean artifact is on disk, its accounts are bound, and the metadata
\* store holds the country table and the file's type.
JurisdictionStart ==
    /\ ju_pc = "calculate"
    /\ jur_source \in SeqsUpTo(JurisdictionRows, MaxJurRows)
    /\ country_table \in CountryTables
    /\ file_type \in {"OUT", "IN"}
    /\ jur_cal = <<>>

\* The same with the rows of a file whose acquirer BIN is not the client's
\* and whose issuer BIN is unlisted or listed with six digits.
SentinelRows == {r \in JurisdictionRows : r.issuing # "bin8" /\ ~r.acquiring}

SentinelStart ==
    /\ ju_pc = "calculate"
    /\ jur_source \in SeqsUpTo(SentinelRows, MaxJurRows)
    /\ country_table \in CountryTables
    /\ file_type \in {"OUT", "IN"}
    /\ jur_cal = <<>>

\* calculate_baseii_fields, its fields jurisdiction and jurisdiction_assigned
CalculateJurisdiction ==
    /\ ju_pc = "calculate"
    /\ jur_cal' = JurisdictionColumns(jur_source, country_table, file_type)
    /\ ju_pc' = "done"
    /\ UNCHANGED <<jur_source, country_table, file_type, ju_others>>

JurisdictionNext == CalculateJurisdiction

---------------------------------------------------------------------------
(* The cell values of the clean stage (_clean_field_values)                *)
(*                                                                         *)
(* An extracted cell is a text, a sequence of characters.  A number is a   *)
(* mantissa m and a count e of decimal places: m / 10^e.                   *)

MaxCleanCols == 2

MaxCellLen == 3

Characters == {"1", ".", "A", "}", " "}

Digits == {"1"}

Texts == SeqsUpTo(Characters, MaxCellLen)

\* The (well-formed) field definitions of the model.
CellDefinitions ==
    {[column_type |-> "str", float_decimals |-> NullDecimals, date_format |-> ""],
     [column_type |-> "int", float_decimals |-> NullDecimals, date_format |-> ""],
     [column_type |-> "float", float_decimals |-> 2, date_format |-> ""],
     [column_type |-> "date", float_decimals |-> NullDecimals, date_format |-> "%d"]}

ExtractedCells ==
    [definition : CellDefinitions, text : Texts]

\* The null of a clean cell (NaN, <NA> or NaT).
Null == [kind |-> "null"]

RECURSIVE Strip(_)
Strip(s) ==
    IF s = <<>> THEN s
    ELSE IF Head(s) = " " THEN Strip(Tail(s))
    ELSE IF s[Len(s)] = " " THEN Strip(SubSeq(s, 1, Len(s) - 1))
    ELSE s

DigitOf(c) == IF c = "1" THEN 1 ELSE 0

RECURSIVE DigitsValue(_)
DigitsValue(s) ==
    IF s = <<>> THEN 0
    ELSE 10 * DigitsValue(SubSeq(s, 1, Len(s) - 1)) + DigitOf(s[Len(s)])

RECURSIVE Power10(_)
Power10(e) == IF e = 0 THEN 1 ELSE 10 * Power10(e - 1)

\* pd.to_numeric(errors="coerce") of a text: digits with at most one decimal
\* point and at least one digit give a number, anything else NaN.
ToNumeric(s) ==
    LET dots   == {p \in 1..Len(s) : s[p] = "."}
        digits == SelectSeq(s, LAMBDA c : c \in Digits)
    IN  IF /\ \A p \in 1..Len(s) : s[p] \in Digits \cup {"."}
           /\ Cardinality(dots) <= 1
           /\ digits # <<>>
            THEN [kind |-> "number", m |-> DigitsValue(digits),
                  e |-> IF dots = {} THEN 0 ELSE Len(s) - (CHOOSE p \in dots : TRUE)]
            ELSE Null

Integral(n) == n.m % Power10(n.e) = 0

\* clean.py lines 121-122: astype("Int64") raises TypeError for a column
\* holding a number that is not an integer.
IntRaises(text) ==
    LET n == ToNumeric(Strip(text)) IN n # Null /\ ~Integral(n)

\* clean.py lines 69: the day of the month of format "%d", NaT otherwise.
ToDatetime(s) ==
    IF /\ Len(s) \in 1..2
       /\ \A p \in 1..Len(s) : s[p] \in Digits
       /\ DigitsValue(s) \in 1..31
        THEN [kind |-> "date", day |-> DigitsValue(s)]
        ELSE Null

\* clean.py lines 117-137 for one cell of a column that does not raise.
CleanCell(c) ==
    LET pre == Strip(c.text)
    IN  IF c.definition.column_type = "str"
            THEN [kind |-> "str", text |-> IF pre = <<>> THEN <<" ">> ELSE pre]
        ELSE IF c.definition.column_type = "int"
            THEN IF ToNumeric(pre) = Null THEN Null
                 ELSE [kind |-> "int",
                       value |-> ToNumeric(pre).m \div Power10(ToNumeric(pre).e)]
        ELSE IF c.definition.column_type = "float"
            THEN IF ToNumeric(pre) = Null THEN Null
                 ELSE [kind |-> "number", m |-> ToNumeric(pre).m,
                       e |-> ToNumeric(pre).e + c.definition.float_decimals]
        ELSE ToDatetime(pre)

CellRaises(c) == c.definition.column_type = "int" /\ IntRaises(c.text)

CellsIdle ==
    /\ cv_pc = "idle"
    /\ ext_cells = <<>>
    /\ cln_cells = <<>>

\* The extracted artifact of a file is on disk.
CellsStart ==
    /\ cv_pc = "clean"
    /\ ext_cells \in SeqsUpTo(ExtractedCells, MaxCleanCols)
    /\ cln_cells = <<>>

\* clean_baseii_fields over the row: column after column, then the write;
\* pd.concat of no column raises ValueError.
CleanCells ==
    /\ cv_pc = "clean"
    /\ IF ext_cells = <<>> \/ \E k \in 1..Len(ext_cells) : CellRaises(ext_cells[k])
          THEN /\ cv_pc' = "raised"
               /\ UNCHANGED cln_cells
          ELSE /\ cln_cells' = [k \in 1..Len(ext_cells) |-> CleanCell(ext_cells[k])]
               /\ cv_pc' = "done"
    /\ UNCHANGED <<ext_cells, cv_others>>

CellsNext == CleanCells

---------------------------------------------------------------------------
(* Rule criteria: interchange._apply_condition and its three groups, on    *)
(* the text of the cell.  A text is a sequence of characters.              *)

\* Bounds: rows of a batch, tokens of a default-group cell.
MaxBatch == 2

MaxTokens == 3

\* sub occurs in s at position i.
StrAt(s, sub, i) ==
    /\ i + Len(sub) - 1 <= Len(s)
    /\ \A k \in 1..Len(sub) : s[i + k - 1] = sub[k]

\* sub in s
StrIn(sub, s) == \E i \in 1..Len(s) : StrAt(s, sub, i)

\* s.replace(old, new)
RECURSIVE StrReplace(_, _, _)
StrReplace(s, old, new) ==
    IF Len(s) = 0 THEN <<>>
    ELSE IF StrAt(s, old, 1)
         THEN new \o StrReplace(SubSeq(s, Len(old) + 1, Len(s)), old, new)
    ELSE <<Head(s)>> \o StrReplace(Tail(s), old, new)

\* s.split(sep, maxsplit); maxsplit = -1 is no limit.
RECURSIVE StrSplit(_, _, _)
StrSplit(s, sep, maxsplit) ==
    LET hits == {i \in 1..Len(s) : StrAt(s, sep, i)}
    IN  IF maxsplit = 0 \/ hits = {} THEN <<s>>
        ELSE <<SubSeq(s, 1, Min(hits) - 1)>>
             \o StrSplit(SubSeq(s, Min(hits) + Len(sep), Len(s)), sep, maxsplit - 1)

DecimalDigits == <<"0", "1", "2", "3", "4", "5", "6", "7", "8", "9">>

\* int(s) and float(s) succeed (on the texts of the model: digits only).
IsNumber(s) == Len(s) > 0 /\ \A k \in 1..Len(s) : s[k] \in Range(DecimalDigits)

\* int(s)
RECURSIVE StrInt(_)
StrInt(s) ==
    IF Len(s) = 0 THEN 0
    ELSE 10 * StrInt(SubSeq(s, 1, Len(s) - 1))
         + (CHOOSE d \in 0..9 : DecimalDigits[d + 1] = s[Len(s)])

\* str(n) for n >= 0
RECURSIVE StrOfInt(_)
StrOfInt(n) ==
    IF n < 10 THEN <<DecimalDigits[n + 1]>>
    ELSE StrOfInt(n \div 10) \o <<DecimalDigits[(n % 10) + 1]>>

\* s.upper(), on the letters the cells of the model are written with.
UpperChar(c) ==
    CASE c = "a" -> "A" [] c = "b" -> "B" [] c = "d" -> "D" [] c = "e" -> "E"
      [] c = "n" -> "N" [] c = "t" -> "T" [] c = "w" -> "W" [] c = "u" -> "U"
      [] c = "s" -> "S" [] OTHER -> c

Upper(s) == [k \in 1..Len(s) |-> UpperChar(s[k])]

\* A column value: a text or an integer; astype(str) of it.
TextValue(s) == [int |-> FALSE, n |-> 0, s |-> s]

IntValue(n) == [int |-> TRUE, n |-> n, s |-> <<>>]

AsStr(v) == IF v.int THEN StrOfInt(v.n) ELSE v.s

\* The outcome of a criterion: it raised, or the rows it kept.  A row carries
\* idx, its index label, and t, the position in the batch of the transaction
\* it was copied from.
Raised == [raises |-> TRUE, rows |-> <<>>]

Kept(rows) == [raises |-> FALSE, rows |-> rows]

FilterRow(idx, t) == [idx |-> idx, t |-> t]

\* Lines 194-201: the strings one token of a default-group cell stands for.
TokenText(value) == StrReplace(value, <<"N", "O", "T", ":">>, <<>>)

TokenRaises(value) ==
    LET text == TokenText(value)
        bounds == StrSplit(text, <<"-">>, 1)
    IN  StrIn(<<"-">>, text) /\ (~IsNumber(bounds[1]) \/ ~IsNumber(bounds[2]))

ReformattedValues(value) ==
    LET text == TokenText(value)
        bounds == StrSplit(text, <<"-">>, 1)
        filled_range == IF StrIn(<<"-">>, text)
                        THEN {StrOfInt(k) : k \in StrInt(bounds[1])..StrInt(bounds[2])}
                        ELSE {}
    IN  IF filled_range # {} THEN filled_range ELSE {text}

\* _apply_condition_default (lines 181-214).
ConditionDefault(name, condition_value, batch) ==
    LET value_list == StrSplit(StrReplace(StrReplace(condition_value, <<"S", "P", "A", "C", "E">>, <<" ">>),
                                          <<"B", "L", "A", "N", "K">>, <<>>), <<",">>, -1)
        pos == {k \in 1..Len(value_list) : ~StrIn(<<"N", "O", "T", ":">>, value_list[k])}
        neg == {k \in 1..Len(value_list) : StrIn(<<"N", "O", "T", ":">>, value_list[k])}
        valid_values == UNION {ReformattedValues(value_list[k]) : k \in pos}
        not_valid_values == UNION {ReformattedValues(value_list[k]) : k \in neg}
        Keep(p) == /\ valid_values # {} => AsStr(batch[p][name]) \in valid_values
                   /\ not_valid_values # {} => AsStr(batch[p][name]) \notin not_valid_values
        kept == SelectSeq([p \in 1..Len(batch) |-> p], Keep)
    IN  IF \E k \in 1..Len(value_list) : TokenRaises(value_list[k]) THEN Raised
        ELSE Kept([k \in 1..Len(kept) |-> FilterRow(batch[kept[k]].idx, kept[k])])

\* Lines 225-229 and 273-277: a blank is put after each comparison operator.
SpaceOperators(v) ==
    StrReplace(StrReplace(StrReplace(StrReplace(v,
        <<"<", "=">>, <<"<", "=", " ">>), <<">", "=">>, <<">", "=", " ">>), <<">">>, <<">", " ">>), <<"<">>, <<"<", " ">>)

OperatorChars == {"<", ">", "="}

\* DataFrame.query tokenises the expression and joins the tokens again before
\* it parses them: a blank that follows an operator token is dropped.
RECURSIVE Untokenize(_, _)
Untokenize(s, after_operator) ==
    IF Len(s) = 0 THEN <<>>
    ELSE IF Head(s) = " " /\ after_operator THEN Untokenize(Tail(s), TRUE)
    ELSE <<Head(s)>> \o Untokenize(Tail(s), Head(s) \in OperatorChars)

\* The comparison of a query "column <v>": its operator and its number.  An
\* expression that does not parse raises SyntaxError; "=" alone is an
\* assignment, and query (target=None) raises ValueError on it.
QueryComparison(v) ==
    LET text == Untokenize(v, TRUE)
        first == {k \in 1..Len(text) : text[k] \notin OperatorChars}
        cut == IF first = {} THEN Len(text) + 1 ELSE Min(first)
        operator == SubSeq(text, 1, cut - 1)
        number == SubSeq(text, cut, Len(text))
    IN  IF operator \in {<<"<">>, <<"<", "=">>, <<">">>, <<">", "=">>, <<"=", "=">>} /\ IsNumber(number)
        THEN [raises |-> FALSE, op |-> operator, lo |-> StrInt(number), hi |-> StrInt(number)]
        ELSE [raises |-> TRUE, op |-> <<>>, lo |-> 0, hi |-> 0]

\* Lines 232-240 and 280-288: the bounds of "BETWEEN low AND high".
BetweenBounds(v) ==
    LET parts == StrSplit(StrReplace(StrReplace(v, <<" ">>, <<>>), <<"B", "E", "T", "W", "E", "E", "N">>, <<>>), <<"A", "N", "D">>, 1)
    IN  IF Len(parts) = 2 /\ IsNumber(parts[1]) /\ IsNumber(parts[2])
        THEN [raises |-> FALSE, op |-> <<"B", "E", "T", "W", "E", "E", "N">>, lo |-> StrInt(parts[1]), hi |-> StrInt(parts[2])]
        ELSE [raises |-> TRUE, op |-> <<>>, lo |-> 0, hi |-> 0]

\* The if / elif / else of lines 224-246 and 272-292.
RangePredicate(v) ==
    IF \E x \in {<<"<">>, <<">">>, <<"=">>} : StrIn(x, v) THEN QueryComparison(SpaceOperators(v))
    ELSE IF \E x \in {<<"B", "E", "T", "W", "E", "E", "N">>, <<"A", "N", "D">>} : StrIn(x, v) THEN BetweenBounds(v)
    ELSE [raises |-> TRUE, op |-> <<>>, lo |-> 0, hi |-> 0]

\* The predicate on a number; NaN (has = FALSE) satisfies no comparison.
PredicateHolds(pred, x) ==
    /\ x.has
    /\ CASE pred.op = <<"<">> -> x.val < pred.lo
         [] pred.op = <<"<", "=">> -> x.val <= pred.lo
         [] pred.op = <<">">> -> x.val > pred.lo
         [] pred.op = <<">", "=">> -> x.val >= pred.lo
         [] pred.op = <<"=", "=">> -> x.val = pred.lo
         [] pred.op = <<"B", "E", "T", "W", "E", "E", "N">> -> pred.lo <= x.val /\ x.val <= pred.hi

\* _apply_condition_greater_less (lines 217-248): boolean filter, labels kept.
ConditionGreaterLess(name, condition_value, batch) ==
    LET pred == RangePredicate(condition_value)
        kept == SelectSeq([p \in 1..Len(batch) |-> p],
                          LAMBDA p : PredicateHolds(pred, batch[p][name]))
    IN  IF pred.raises THEN Raised
        ELSE Kept([k \in 1..Len(kept) |-> FilterRow(batch[kept[k]].idx, kept[k])])

\* pd.merge(how="left") of lines 262-268: one row per matching rate row, or
\* one row without a rate; the result is numbered from its first row.
RECURSIVE MergeRates(_, _, _)
MergeRates(batch, target_rates, p) ==
    IF p > Len(batch) THEN <<>>
    ELSE LET hits == SelectSeq(target_rates, LAMBDA r :
                        r.currency_from_code = batch[p].source_currency_code)
             out == IF Len(hits) = 0 THEN <<[t |-> p, exchange_value |-> NoValue]>>
                    ELSE [h \in 1..Len(hits) |->
                            [t |-> p,
                             exchange_value |-> [has |-> TRUE, val |-> hits[h].exchange_value]]]
         IN  out \o MergeRates(batch, target_rates, p + 1)

\* Line 269: comparison_value = amount * exchange_value.
ComparisonValue(amount, exchange_value) ==
    [has |-> amount.has /\ exchange_value.has,
     val |-> IF amount.has /\ exchange_value.has THEN amount.val * exchange_value.val ELSE 0]

\* _apply_condition_amount_currency (lines 251-294).
ConditionAmountCurrency(name, string_range, batch, rts) ==
    LET parts == StrSplit(string_range, <<",">>, 1)
        target_currency == parts[1]
        target_rates == SelectSeq(rts, LAMBDA r : r.currency_to = target_currency)
        merged == MergeRates(batch, target_rates, 1)
        pred == RangePredicate(parts[2])
        kept == SelectSeq([p \in 1..Len(merged) |-> p],
                    LAMBDA p : PredicateHolds(pred,
                        ComparisonValue(batch[merged[p].t][name], merged[p].exchange_value)))
    IN  IF Len(parts) # 2 THEN Raised
        ELSE IF pred.raises THEN Raised
        ELSE Kept([k \in 1..Len(kept) |-> FilterRow(kept[k], merged[kept[k]].t)])

\* _apply_condition (lines 297-326): normalise, skip a blank cell, dispatch.
Normalise(condition_value) == Upper(StrReplace(condition_value, <<" ">>, <<>>))

Condition(name, condition_value, batch, rts) ==
    LET value == Normalise(condition_value)
    IN  IF value \in {<<>>, <<"N", "A", "N">>, <<"N", "O", "N", "E">>}
        THEN Kept([p \in 1..Len(batch) |-> FilterRow(batch[p].idx, p)])
        ELSE IF name \in {"surcharge_amount", "timeliness"}
             THEN ConditionGreaterLess(name, value, batch)
        ELSE IF name \in {"source_amount"}
             THEN ConditionAmountCurrency(name, value, batch, rts)
        ELSE ConditionDefault(name, value, batch)

\* ---- inputs ----

\* Default-group tokens and cells (draft_code).
DefaultTokens ==
    {<<"0", "1">>, <<"0", "4">>, <<"0", "3", "-", "0", "5">>, <<"3", "-", "5">>, <<"N", "O", "T", ":", "0", "4">>, <<"N", "O", "T", ":", "4">>, <<"A", "-", "B">>}

RECURSIVE JoinTokens(_)
JoinTokens(tokens) ==
    IF Len(tokens) = 1 THEN tokens[1]
    ELSE tokens[1] \o <<",">> \o JoinTokens(Tail(tokens))

DefaultCells ==
    {JoinTokens(tokens) : tokens \in SeqsUpTo(DefaultTokens, MaxTokens) \ {<<>>}}

\* Numeric-range cells (timeliness).
RangeCells ==
    {<<"<", "3">>, <<"<", "=", "3">>, <<">", "3">>, <<">", "=", "3">>, <<"=", "3">>, <<"=", "=", "3">>, <<"<", "=", " ", "3">>, <<"B", "E", "T", "W", "E", "E", "N", " ", "2", " ", "A", "N", "D", " ", "3">>,
     <<"b", "e", "t", "w", "e", "e", "n", "2", "a", "n", "d", "3">>, <<"3">>, <<>>}

\* Amount cells (source_amount).
AmountCells ==
    {<<"U", "S", "D", ",", "B", "E", "T", "W", "E", "E", "N", " ", "1", "0", "0", " ", "A", "N", "D", " ", "1", "0", "0", "0">>, <<"U", "S", "D", ",", "<", "=", "1", "0", "0", "0">>, <<"u", "s", "d", ",", " ", ">", "=", " ", "1", "0", "0", "0">>, <<"U", "S", "D", ",", "=", "5", "0", "0">>,
     <<"U", "S", "D", ",", "1", "0", "0", "0">>, <<"B", "E", "T", "W", "E", "E", "N", " ", "1", "0", "0", " ", "A", "N", "D", " ", "1", "0", "0", "0">>}

DraftCodes ==
    {TextValue(<<"0", "1">>), TextValue(<<"0", "3">>), TextValue(<<"0", "4">>), TextValue(<<"0", "5">>),
     IntValue(3), IntValue(4)}

Timelinesses == {[has |-> TRUE, val |-> d] : d \in 2..4} \cup {NoValue}

SourceAmounts == {[has |-> TRUE, val |-> a] : a \in {500, 50000}}

CurrencyCodes == {"840", "604"}

RateRows ==
    [currency_to : {<<"U", "S", "D">>, <<"P", "E", "N">>}, currency_from_code : CurrencyCodes,
     exchange_value : {1, 2}]

\* A transaction row of a batch.
CriterionRow(idx, ja, dc, sa, scc, tl) ==
    [idx |-> idx, jurisdiction_assigned |-> ja, draft_code |-> dc, source_amount |-> sa,
     source_currency_code |-> scc, timeliness |-> tl]

DefaultAmount == [has |-> TRUE, val |-> 500]

DefaultCode == TextValue(<<"0", "5">>)

\* The index labels of a batch: a selection of rows of the transactions frame.
BatchLabels ==
    {labels \in SeqsUpTo(1..(MaxBatch + 1), MaxBatch) :
        \A a, b \in 1..Len(labels) : a < b => labels[a] < labels[b]}

RangeLabels == {[p \in 1..k |-> p] : k \in 0..MaxBatch}

DefaultBatches ==
    {[p \in 1..Len(labels) |-> CriterionRow(labels[p], "9", dc[p], DefaultAmount, "840", NoValue)] :
        labels \in RangeLabels, dc \in [1..MaxBatch -> DraftCodes]}

RangeBatches ==
    {[p \in 1..Len(labels) |-> CriterionRow(labels[p], "9", DefaultCode, DefaultAmount, "840", tl[p])] :
        labels \in RangeLabels, tl \in [1..MaxBatch -> Timelinesses]}

AmountBatches ==
    {[p \in 1..Len(labels) |-> CriterionRow(labels[p], "9", DefaultCode, sa[p], scc[p], NoValue)] :
        labels \in BatchLabels, sa \in [1..MaxBatch -> SourceAmounts],
        scc \in [1..MaxBatch -> CurrencyCodes]}

NoRule == [draft_code |-> <<>>, source_amount |-> <<>>, timeliness |-> <<>>]

CriteriaIdle ==
    /\ cr_pc = "idle"
    /\ cr_name = ""
    /\ cr_value = <<>>
    /\ cr_rule = NoRule
    /\ cr_batch = <<>>
    /\ cr_rates = <<>>
    /\ cr_filter = <<>>

CriterionStart ==
    /\ cr_pc = "apply"
    /\ cr_rule = NoRule
    /\ cr_filter = <<>>
    /\ \/ /\ cr_name = "draft_code"
          /\ cr_value \in DefaultCells
          /\ cr_batch \in DefaultBatches
          /\ cr_rates = <<>>
       \/ /\ cr_name = "timeliness"
          /\ cr_value \in RangeCells
          /\ cr_batch \in RangeBatches
          /\ cr_rates = <<>>
       \/ /\ cr_name = "source_amount"
          /\ cr_value \in AmountCells
          /\ cr_batch \in AmountBatches
          /\ cr_rates \in SeqsUpTo(RateRows, 2)

\* One call of _apply_condition.
ApplyCriterion ==
    /\ cr_pc = "apply"
    /\ LET result == Condition(cr_name, cr_value, cr_batch, cr_rates)
       IN  /\ cr_pc' = IF result.raises THEN "raised" ELSE "applied"
           /\ cr_filter' = result.rows
    /\ UNCHANGED <<cr_name, cr_value, cr_rule, cr_batch, cr_rates, cr_others>>

CriterionNext == ApplyCriterion

\* ---- one rule of the loop of _evaluate_interchange_fees, on cell texts ----

\* The criteria columns in frame order (as ConditionColumns).
RuleCells ==
    [draft_code : {<<>>, <<"0", "5">>, <<"A", "-", "B">>},
     source_amount : {<<>>, <<"U", "S", "D", ",", "<", "=", "1", "0", "0", "0">>, <<"U", "S", "D", ",", "1", "0", "0", "0">>},
     timeliness : {<<>>, <<"<", "=", "3">>, <<"3">>}]

\* The region_country_code of the rule.
RuleRegion == "9"

RuleTransactions ==
    {[p \in 1..Len(rows) |->
        CriterionRow(p, rows[p][1], TextValue(rows[p][2]),
                     [has |-> TRUE, val |-> rows[p][3]], "840",
                     [has |-> TRUE, val |-> rows[p][4]])] :
        rows \in SeqsUpTo({"9", "PE"} \X {<<"0", "5">>, <<"0", "6">>} \X {500, 50000} \X {2, 4},
                          MaxBatch)}

RuleRates == <<[currency_to |-> <<"U", "S", "D">>, currency_from_code |-> "840", exchange_value |-> 1]>>

\* The rows a criterion kept, as the batch of the next criterion.
AsBatch(batch, rows) ==
    [k \in 1..Len(rows) |-> [batch[rows[k].t] EXCEPT !.idx = rows[k].idx]]

\* Lines 380-388: the non-empty criteria in column order, stopping as soon
\* as the batch is empty; a criterion that raises ends the stage.
RECURSIVE EvaluateConditions(_, _, _, _)
EvaluateConditions(rule, next_batch, rts, k) ==
    IF k > Len(ConditionColumns) \/ Len(next_batch) = 0
    THEN Kept([p \in 1..Len(next_batch) |-> FilterRow(next_batch[p].idx, p)])
    ELSE IF rule[ConditionColumns[k]] = <<>>
         THEN EvaluateConditions(rule, next_batch, rts, k + 1)
    ELSE LET result == Condition(ConditionColumns[k], rule[ConditionColumns[k]],
                                 next_batch, rts)
         IN  IF result.raises THEN Raised
             ELSE EvaluateConditions(rule, AsBatch(next_batch, result.rows), rts, k + 1)

\* Lines 336-337 and 374-379: the rule is evaluated when its region is a
\* jurisdiction of the file, on the transactions of that jurisdiction.
RuleBatch(txns) == SelectSeq(txns, LAMBDA t : t.jurisdiction_assigned = RuleRegion)

RuleStart ==
    /\ cr_pc = "rule"
    /\ cr_name = ""
    /\ cr_value = <<>>
    /\ cr_rule \in RuleCells
    /\ cr_batch \in RuleTransactions
    /\ cr_rates = RuleRates
    /\ cr_filter = <<>>

\* calculate_baseii_interchange for a rule table of one rule: the loop body,
\* then the artifact is written; an exception leaves no artifact.
EvaluateRuleCriteria ==
    /\ cr_pc = "rule"
    /\ LET result == EvaluateConditions(cr_rule, RuleBatch(cr_batch), cr_rates, 1)
       IN  /\ cr_pc' = IF result.raises THEN "raised" ELSE "written"
           /\ cr_filter' = result.rows
    /\ UNCHANGED <<cr_name, cr_value, cr_rule, cr_batch, cr_rates, cr_others>>

RuleNext == EvaluateRuleCriteria

---------------------------------------------------------------------------
(* Field extractor: extract.extract_baseii_fields on the sub-record texts  *)

\* Bound: length of a sub-record text.
MaxRecordLen == 2

\* The sub-record columns of the raw frame the model keeps.
Tcsns == {"0", "1"}

RecordTexts == {<<>>, <<"A">>, <<"A", "B">>, <<"B", "A">>}

\* A field definition without a secondary identifier carries "".
NoIdentifier == [pos |-> 0, len |-> 0, literal |-> <<>>]

ExtractDefinitions ==
    [tcsn : Tcsns, position : 1..MaxRecordLen, length : 1..MaxRecordLen,
     secondary : {NoIdentifier, [pos |-> 1, len |-> 1, literal |-> <<"A">>],
                  [pos |-> MaxRecordLen, len |-> 1, literal |-> <<"B">>]}]

\* sort_by = ["tcsn", "position", "secondary_identifier_len"]
DefinitionKey(fd) ==
    (IF fd.tcsn = "0" THEN 0 ELSE 100) + 10 * fd.position + fd.secondary.len

SortedDefinitions ==
    {defs \in SeqsUpTo(ExtractDefinitions, MaxDefs) :
        \A a, b \in 1..Len(defs) : a < b => DefinitionKey(defs[a]) <= DefinitionKey(defs[b])}

RawTexts ==
    {[p \in 1..Len(rows) |-> [idx |-> p, text |-> rows[p]]] :
        rows \in SeqsUpTo([Tcsns -> RecordTexts], MaxRows)}

\* s.str.slice(start, stop) with 0 <= start: the characters at offsets
\* start .. stop - 1 that the text has.
StrSlice(s, start, stop) ==
    SubSeq(s, start + 1, IF stop < Len(s) THEN stop ELSE Len(s))

\* Lines 68-81: the rows the definition reads.
ExtractView(data, fd) ==
    IF fd.secondary.literal = <<>> THEN data
    ELSE SelectSeq(data, LAMBDA r :
            StrSlice(r.text[fd.tcsn], fd.secondary.pos - 1,
                     fd.secondary.pos + fd.secondary.len - 1) = fd.secondary.literal)

\* Lines 83-88: the series of the definition, on the labels of its view.
FieldSeries(data, fd) ==
    LET data_view == ExtractView(data, fd)
    IN  [p \in 1..Len(data_view) |->
            [idx |-> data_view[p].idx,
             value |-> StrSlice(data_view[p].text[fd.tcsn], fd.position - 1,
                                fd.position + fd.length - 1)]]

\* Line 90: pd.concat(fields, axis=1).fillna("").astype(str): the index is
\* the union of the labels, a cell without a value in its series is "".
ConcatFields(series) ==
    LET index == UnionIndex([k \in 1..Len(series) |-> Index(series[k])])
    IN  [p \in 1..Len(index) |->
            [idx |-> index[p],
             cells |-> [k \in 1..Len(series) |->
                          IF HasLabel(series[k], index[p])
                          THEN Loc(series[k], index[p]).value ELSE <<>>]]]

ExtractIdle ==
    /\ ex_pc = "idle"
    /\ ex_data = <<>>
    /\ ex_defs = <<>>
    /\ extract_df = <<>>

ExtractStart ==
    /\ ex_pc = "extract"
    /\ ex_data \in RawTexts
    /\ ex_defs \in SortedDefinitions
    /\ extract_df = <<>>

\* extract_baseii_fields; pd.concat of an empty list raises ValueError.
ExtractFields ==
    /\ ex_pc = "extract"
    /\ IF ex_defs = <<>>
          THEN /\ ex_pc' = "raised"
               /\ UNCHANGED extract_df
          ELSE /\ extract_df' =
                    ConcatFields([k \in 1..Len(ex_defs) |-> FieldSeries(ex_data, ex_defs[k])])
               /\ ex_pc' = "extracted"
    /\ UNCHANGED <<ex_data, ex_defs, ex_others>>

ExtractNext == ExtractFields

---------------------------------------------------------------------------
(* Date formats: clean._parse_dates, formats "!MMDD" and "!YYYYDDD"        *)

\* The years of the processing dates of the model.
FileYears == 2023..2025

Date(y, m, d) == [kind |-> "date", y |-> y, m |-> m, d |-> d]

IsLeap(y) == (y % 4 = 0 /\ y % 100 # 0) \/ y % 400 = 0

DaysInMonth(y, m) ==
    IF m = 2 THEN (IF IsLeap(y) THEN 29 ELSE 28)
    ELSE IF m \in {4, 6, 9, 11} THEN 30 ELSE 31

DaysInYear(y) == IF IsLeap(y) THEN 366 ELSE 365

\* a > b on timestamps
After(a, b) ==
    \/ a.y > b.y
    \/ a.y = b.y /\ a.m > b.m
    \/ a.y = b.y /\ a.m = b.m /\ a.d > b.d

\* pd.to_datetime(text, format="%Y%m%d", errors="coerce") of a year and four
\* characters: a month and a day of that year, NaT otherwise.
ToDatetimeYmd(year, text) ==
    IF /\ Len(text) = 4
       /\ IsNumber(text)
       /\ StrInt(SubSeq(text, 1, 2)) \in 1..12
       /\ StrInt(SubSeq(text, 3, 4)) \in 1..DaysInMonth(year, StrInt(SubSeq(text, 1, 2)))
    THEN Date(year, StrInt(SubSeq(text, 1, 2)), StrInt(SubSeq(text, 3, 4)))
    ELSE Null

\* date - pd.DateOffset(years=n): the same month, the day clipped to the
\* length of that month.
MinusYears(date, n) ==
    Date(date.y - n, date.m,
         IF date.d > DaysInMonth(date.y - n, date.m)
         THEN DaysInMonth(date.y - n, date.m) ELSE date.d)

\* datetime(year, 1, 1) + pd.Timedelta(days=n - 1)
RECURSIVE AddDays(_, _, _)
AddDays(y, m, n) ==
    IF n <= DaysInMonth(y, m) THEN Date(y, m, n)
    ELSE IF m = 12 THEN AddDays(y + 1, 1, n - DaysInMonth(y, m))
    ELSE AddDays(y, m + 1, n - DaysInMonth(y, m))

\* Lines 70-77: case "!MMDD".
ParseMmdd(text, reference_date) ==
    LET pre == ToDatetimeYmd(reference_date.y, text)
    IN  IF pre # Null /\ After(pre, reference_date) THEN MinusYears(pre, 1) ELSE pre

\* Lines 86-103: case "!YYYYDDD" (parse_yyyy_ddd).
ParseYyyyDdd(date_str) ==
    LET year == SubSeq(date_str, 1, 4)
        day_of_year == SubSeq(date_str, 5, Len(date_str))
    IN  IF Strip(date_str) = <<>> THEN Null
        ELSE IF ~IsNumber(year) \/ ~IsNumber(day_of_year) THEN Null
        ELSE IF StrInt(day_of_year) < 1 \/ StrInt(day_of_year) > 366 THEN Null
        ELSE IF StrInt(year) < 1 THEN Null
        ELSE AddDays(StrInt(year), 1, StrInt(day_of_year))

\* _parse_dates for the two formats.
ParseDates(text, date_format, reference_date) ==
    IF date_format = "!MMDD" THEN ParseMmdd(text, reference_date)
    ELSE ParseYyyyDdd(text)

FileDates ==
    {Date(y, md[1], md[2]) :
        y \in FileYears,
        md \in {<<1, 1>>, <<2, 10>>, <<2, 28>>, <<3, 1>>, <<12, 15>>, <<12, 31>>}}
    \cup {Date(y, 2, 29) : y \in {y \in FileYears : IsLeap(y)}}

MmddTexts ==
    {<<"0", "1", "0", "1">>, <<"0", "2", "1", "0">>, <<"0", "2", "2", "8">>, <<"0", "2", "2", "9">>, <<"0", "3", "0", "1">>, <<"1", "2", "1", "5">>, <<"1", "2", "3", "1">>, <<"0", "2", "3", "0">>, <<"1", "3", "1", "5">>,
     <<"0", "0", "0", "0">>, <<"1", "2">>, <<" ", " ", " ", " ">>}

YyyyDddTexts ==
    {<<"2", "0", "2", "4", "0", "0", "1">>, <<"2", "0", "2", "4", "0", "6", "0">>, <<"2", "0", "2", "4", "3", "6", "6">>, <<"2", "0", "2", "4", "3", "6", "7">>, <<"2", "0", "2", "5", "0", "0", "0">>, <<"2", "0", "2", "5", "0", "0", "1">>,
     <<"2", "0", "2", "5", "0", "6", "0">>, <<"2", "0", "2", "5", "3", "6", "5">>, <<"2", "0", "2", "5", "3", "6", "6">>, <<"2", "0", "2", "5", "3", "6", "7">>, <<"2", "0", "2", "5">>, <<"2", "0", "2", "5", "3", "A", "6">>, <<" ", " ", " ", " ", " ", " ", " ">>,
     <<"0", "0", "0", "0", "0", "0", "1">>}

DatesIdle ==
    /\ dt_pc = "idle"
    /\ dt_format = ""
    /\ dt_file_date = Null
    /\ dt_text = <<>>
    /\ dt_result = Null

DatesStart ==
    /\ dt_pc = "parse"
    /\ dt_file_date \in FileDates
    /\ \/ dt_format = "!MMDD" /\ dt_text \in MmddTexts
       \/ dt_format = "!YYYYDDD" /\ dt_text \in YyyyDddTexts
    /\ dt_result = Null

\* _parse_dates on the cell.
ParseDatesCell ==
    /\ dt_pc = "parse"
    /\ dt_result' = ParseDates(dt_text, dt_format, dt_file_date)
    /\ dt_pc' = "parsed"
    /\ UNCHANGED <<dt_format, dt_file_date, dt_text, dt_others>>

DatesNext == ParseDatesCell

---------------------------------------------------------------------------
(* Dispatch tables: calculate.business_transaction_type and                *)
(* calculate.reversal_indicator, type_record "draft"                       *)

DispatchRows ==
    [draft_code : {"05", "06", "07", "15", "25", "26", "27"},
     merchant_category_code : {4829, 5411, 6010, 6011},
     usage_code : {1, 2},
     special_condition_indicator_merchant_draft_indicator : {"7", "8", " "},
     draft_code_qualifier_0 : {0, 2}]

\* np.select(conditions, condition_values, default): the value paired with
\* the first condition that holds.
NpSelect(conditions, condition_values, default) ==
    LET holding == {k \in 1..Len(conditions) : conditions[k]}
    IN  IF holding = {} THEN default ELSE condition_values[Min(holding)]

\* business_transaction_type.calculate, lines 195-230.
BusinessTransactionType(source) ==
    LET conditions == <<
            /\ source.draft_code \in {"05", "15", "25", "35"}
            /\ source.merchant_category_code \notin {4829, 6051, 7995},
            /\ source.draft_code \in {"05", "15", "25", "35"}
            /\ source.merchant_category_code \in {4829, 6051, 7995},
            /\ source.draft_code \in {"06", "16", "26", "36"}
            /\ source.usage_code = 1,
            /\ source.draft_code \in {"06", "16", "26", "36"}
            /\ source.usage_code = 1
            /\ source.special_condition_indicator_merchant_draft_indicator \in {"7", "8"},
            /\ source.draft_code \in {"06", "16", "26", "36"}
            /\ source.usage_code = 1
            /\ source.draft_code_qualifier_0 = 2,
            /\ source.draft_code \in {"07", "17", "27", "37"}
            /\ source.merchant_category_code = 6010,
            /\ source.draft_code \in {"07", "17", "27", "37"}
            /\ source.merchant_category_code = 6011 >>
        condition_values == <<1, 3, 19, 20, 25, 21, 22>>
    IN  NpSelect(conditions, condition_values, 255)

\* reversal_indicator.calculate, lines 773-778.
ReversalIndicator(source) ==
    NpSelect(<<source.draft_code \in {"25", "26", "27", "35", "36", "37"}>>, <<1>>, 0)

NoFields == [business_transaction_type |-> -1, reversal_indicator |-> -1]

DispatchIdle ==
    /\ bt_pc = "idle"
    /\ bt_source = <<>>
    /\ bt_fields = NoFields

DispatchStart ==
    /\ bt_pc = "calculate"
    /\ bt_source \in DispatchRows
    /\ bt_fields = NoFields

\* The two fields of calculate_baseii_fields for the row.
CalculateDispatchFields ==
    /\ bt_pc = "calculate"
    /\ bt_fields' = [business_transaction_type |-> BusinessTransactionType(bt_source),
                     reversal_indicator |-> ReversalIndicator(bt_source)]
    /\ bt_pc' = "calculated"
    /\ UNCHANGED <<bt_source, bt_others>>

DispatchNext == CalculateDispatchFields

---------------------------------------------------------------------------
(* Specifications                                                          *)

InitFramer == FramerStart /\ RulesIdle /\ StagesIdle /\ RerunIdle /\ OrchIdle /\ CleanIdle /\ LoadIdle /\ ArdefIdle /\ JurisdictionIdle /\ CellsIdle /\ CriteriaIdle /\ ExtractIdle /\ DatesIdle /\ DispatchIdle

SpecFramer == InitFramer /\ [][FramerNext]_vars

InitRules == RulesStart /\ FramerIdle /\ StagesIdle /\ RerunIdle /\ OrchIdle /\ CleanIdle /\ LoadIdle /\ ArdefIdle /\ JurisdictionIdle /\ CellsIdle /\ CriteriaIdle /\ ExtractIdle /\ DatesIdle /\ DispatchIdle

SpecRules == InitRules /\ [][RulesNext]_vars

InitStages == StagesStart /\ FramerIdle /\ RulesIdle /\ RerunIdle /\ OrchIdle /\ CleanIdle /\ LoadIdle /\ ArdefIdle /\ JurisdictionIdle /\ CellsIdle /\ CriteriaIdle /\ ExtractIdle /\ DatesIdle /\ DispatchIdle

SpecStages == InitStages /\ [][StagesNext]_vars

InitRerun == RerunStart /\ FramerIdle /\ RulesIdle /\ StagesIdle /\ OrchIdle /\ CleanIdle /\ LoadIdle /\ ArdefIdle /\ JurisdictionIdle /\ CellsIdle /\ CriteriaIdle /\ ExtractIdle /\ DatesIdle /\ DispatchIdle

SpecRerun == InitRerun /\ [][RerunNext]_vars

InitOrch == OrchStart /\ FramerIdle /\ RulesIdle /\ StagesIdle /\ RerunIdle /\ CleanIdle /\ LoadIdle /\ ArdefIdle /\ JurisdictionIdle /\ CellsIdle /\ CriteriaIdle /\ ExtractIdle /\ DatesIdle /\ DispatchIdle

SpecOrch == InitOrch /\ [][OrchNext]_vars

InitClean ==
    CleanStart /\ FramerIdle /\ RulesIdle /\ StagesIdle /\ RerunIdle /\ OrchIdle /\ LoadIdle /\ ArdefIdle /\ JurisdictionIdle /\ CellsIdle /\ CriteriaIdle /\ ExtractIdle /\ DatesIdle /\ DispatchIdle

SpecClean == InitClean /\ [][CleanNext]_vars

InitLoad ==
    LoadStart /\ FramerIdle /\ RulesIdle /\ StagesIdle /\ RerunIdle /\ OrchIdle /\ CleanIdle /\ ArdefIdle /\ JurisdictionIdle /\ CellsIdle /\ CriteriaIdle /\ ExtractIdle /\ DatesIdle /\ DispatchIdle

SpecLoad == InitLoad /\ [][LoadNext]_vars

InitArdef ==
    ArdefStart /\ FramerIdle /\ RulesIdle /\ StagesIdle /\ RerunIdle /\ OrchIdle /\ CleanIdle /\ LoadIdle /\ JurisdictionIdle /\ CellsIdle /\ CriteriaIdle /\ ExtractIdle /\ DatesIdle /\ DispatchIdle

SpecArdef == InitArdef /\ [][ArdefNext]_vars

InitBinding ==
    BindingStart /\ FramerIdle /\ RulesIdle /\ StagesIdle /\ RerunIdle /\ OrchIdle /\ CleanIdle /\ LoadIdle /\ JurisdictionIdle /\ CellsIdle /\ CriteriaIdle /\ ExtractIdle /\ DatesIdle /\ DispatchIdle

SpecBinding == InitBinding /\ [][BindingNext]_vars

InitWide ==
    WideStart /\ FramerIdle /\ RulesIdle /\ StagesIdle /\ RerunIdle /\ OrchIdle /\ CleanIdle /\ LoadIdle /\ JurisdictionIdle /\ CellsIdle /\ CriteriaIdle /\ ExtractIdle /\ DatesIdle /\ DispatchIdle

SpecWide == InitWide /\ [][ArdefNext]_vars

InitJurisdiction ==
    JurisdictionStart /\ FramerIdle /\ RulesIdle /\ StagesIdle /\ RerunIdle /\ OrchIdle /\ CleanIdle /\ LoadIdle /\ ArdefIdle /\ CellsIdle /\ CriteriaIdle /\ ExtractIdle /\ DatesIdle /\ DispatchIdle

SpecJurisdiction == InitJurisdiction /\ [][JurisdictionNext]_vars

InitSentinel ==
    SentinelStart /\ FramerIdle /\ RulesIdle /\ StagesIdle /\ RerunIdle /\ OrchIdle /\ CleanIdle /\ LoadIdle /\ ArdefIdle /\ CellsIdle /\ CriteriaIdle /\ ExtractIdle /\ DatesIdle /\ DispatchIdle

SpecSentinel == InitSentinel /\ [][JurisdictionNext]_vars

InitCells ==
    CellsStart /\ FramerIdle /\ RulesIdle /\ StagesIdle /\ RerunIdle /\ OrchIdle /\ CleanIdle /\ LoadIdle /\ ArdefIdle /\ JurisdictionIdle /\ CriteriaIdle /\ ExtractIdle /\ DatesIdle /\ DispatchIdle

SpecCells == InitCells /\ [][CellsNext]_vars

InitCriterion ==
    CriterionStart /\ FramerIdle /\ RulesIdle /\ StagesIdle /\ RerunIdle /\ OrchIdle /\ CleanIdle /\ LoadIdle /\ ArdefIdle /\ JurisdictionIdle /\ CellsIdle /\ ExtractIdle /\ DatesIdle /\ DispatchIdle

SpecCriterion == InitCriterion /\ [][CriterionNext]_vars

InitRule ==
    RuleStart /\ FramerIdle /\ RulesIdle /\ StagesIdle /\ RerunIdle /\ OrchIdle /\ CleanIdle /\ LoadIdle /\ ArdefIdle /\ JurisdictionIdle /\ CellsIdle /\ ExtractIdle /\ DatesIdle /\ DispatchIdle

SpecRule == InitRule /\ [][RuleNext]_vars

InitExtract ==
    ExtractStart /\ FramerIdle /\ RulesIdle /\ StagesIdle /\ RerunIdle /\ OrchIdle /\ CleanIdle /\ LoadIdle /\ ArdefIdle /\ JurisdictionIdle /\ CellsIdle /\ CriteriaIdle /\ DatesIdle /\ DispatchIdle

SpecExtract == InitExtract /\ [][ExtractNext]_vars

InitDates ==
    DatesStart /\ FramerIdle /\ RulesIdle /\ StagesIdle /\ RerunIdle /\ OrchIdle /\ CleanIdle /\ LoadIdle /\ ArdefIdle /\ JurisdictionIdle /\ CellsIdle /\ CriteriaIdle /\ ExtractIdle /\ DispatchIdle

SpecDates == InitDates /\ [][DatesNext]_vars

InitDispatch ==
    DispatchStart /\ FramerIdle /\ RulesIdle /\ StagesIdle /\ RerunIdle /\ OrchIdle /\ CleanIdle /\ LoadIdle /\ ArdefIdle /\ JurisdictionIdle /\ CellsIdle /\ CriteriaIdle /\ ExtractIdle /\ DatesIdle

SpecDispatch == InitDispatch /\ [][DispatchNext]_vars


---------------------------------------------------------------------------
(* Rule engine: properties                                                 *)

\* A transaction satisfies a criterion cell of a rule: the criterion's meaning
\* row by row, independent of batches and index labels.
Satisfies(name, cell, txn) ==
    IF cell = Blank THEN TRUE
    ELSE IF name = "timeliness" THEN RangeHolds(cell, txn[name])
    ELSE IF name = "source_amount"
         THEN \E k \in 1..Len(rates) :
                 /\ rates[k].currency_to = cell.ccy
                 /\ rates[k].currency_from_code = txn.source_currency_code
                 /\ RangeHolds(cell, txn[name] * rates[k].exchange_value)
    ELSE /\ HasValid(cell) => txn[name] \in ValidValues(cell)
         /\ HasNotValid(cell) => txn[name] \notin NotValidValues(cell)

\* The rules of the transaction's jurisdiction whose every non-blank criterion
\* the transaction satisfies.
MatchingRules(txn) ==
    {r \in Range(rules) :
        /\ r.region_country_code = txn.jurisdiction_assigned
        /\ \A k \in 1..Len(ConditionColumns) :
              Satisfies(ConditionColumns[k], r[ConditionColumns[k]], txn)}

LowestRule(S) == CHOOSE r \in S : \A q \in S : r.intelica_id <= q.intelica_id

\* C1 (as claimed): after _evaluate_interchange_fees every transaction is
\* unbound (-1) when no rule of its jurisdiction matches it, and otherwise
\* carries the id and the fee columns of the matching rule with the smallest
\* intelica_id.
C1_LowestMatchingRuleBound ==
    ru_pc = "done" =>
        \A p \in 1..Len(transactions) :
            LET m == MatchingRules(transactions[p])
            IN  IF m = {} THEN itx[p].intelica_id = -1
                ELSE itx[p] = UpdateColumns(LowestRule(m))

\* C2 (as claimed): during the rule loop a bound transaction is never
\* rewritten: once interchange_intelica_id is a rule's id, a later iteration
\* leaves the transaction's eight interchange_* columns as they are.
C2_BoundNeverRewritten ==
    [][\A p \in 1..Len(itx) :
          (ru_pc = "loop" /\ itx[p].intelica_id # -1) => itx'[p] = itx[p]]_vars

\* The transaction is one the rule is to bind: it is unbound, of the rule's
\* jurisdiction, and satisfies every non-blank criterion of the rule.
ToBind(rule, p) ==
    /\ itx[p].intelica_id = -1
    /\ transactions[p].jurisdiction_assigned = rule.region_country_code
    /\ \A k \in 1..Len(ConditionColumns) :
          Satisfies(ConditionColumns[k], rule[ConditionColumns[k]], transactions[p])

\* C19: the binding step of a rule writes the eight interchange_* columns of
\* exactly the transactions that were unbound, of the rule's jurisdiction and
\* passed every non-blank criterion, on their own rows, and leaves the columns
\* of every other transaction unchanged, also for a rule with a source_amount
\* criterion.
C19_BindingWritesMatchingRows ==
    [][(ru_pc = "loop" /\ ru_i <= Len(rules_to_evaluate)) =>
          \A p \in 1..Len(transactions) :
              itx'[p] = IF ToBind(rules_to_evaluate[ru_i], p)
                            THEN UpdateColumns(rules_to_evaluate[ru_i])
                            ELSE itx[p]]_vars

\* C20: the frame after a rule's iteration is the same for every order in
\* which the rule's non-blank criteria are applied.
C20_CriteriaOrderIrrelevant ==
    (ru_pc = "loop" /\ ru_i <= Len(rules_to_evaluate)) =>
        \A order \in ConditionOrders :
            RuleIterationInOrder(order, transactions, itx, rules_to_evaluate[ru_i], rates)
                = RuleIteration(transactions, itx, rules_to_evaluate[ru_i], rates)

---------------------------------------------------------------------------
(* Stage row contracts: properties                                         *)

StageDone(stage) ==
    CASE stage = "extract"     -> st_pc \in {"clean", "calculate", "interchange", "store", "done"}
      [] stage = "clean"       -> st_pc \in {"calculate", "interchange", "store", "done"}
      [] stage = "calculate"   -> st_pc \in {"interchange", "store", "done"}
      [] stage = "interchange" -> st_pc \in {"store", "done"}
      [] stage = "store"       -> st_pc = "done"

\* Row i of the output describes, in every column group, the record that
\* row i of the input describes, and there are as many rows.
SameRows(out, inp, groups) ==
    /\ Len(out) = Len(inp)
    /\ \A i \in 1..Len(out) : \A g \in groups : out[i][g] = inp[i].t

\* C3: every stage from extract to store preserves the number and the order
\* of the rows: its output has one row per input transaction and row i of
\* the output describes the transaction at row i of its input, whatever the
\* field definitions (all of them may carry a secondary identifier) and
\* whatever the reference tables joined in.
C3_StagesPreserveRows ==
    /\ StageDone("extract") => SameRows(ext_df, RawFrame, {"t"})
    /\ StageDone("clean") => SameRows(cln_df, ext_df, {"t"})
    /\ StageDone("calculate") =>
           SameRows(cal_df, cln_df, {"ardef", "application", "jurisdiction"})
    /\ StageDone("interchange") => SameRows(itx_df, cln_df, {"t", "jurisdiction"})
    /\ StageDone("store") =>
           SameRows(opr_df, cln_df,
                    {"t", "ardef", "application", "jurisdiction", "interchange"})

---------------------------------------------------------------------------
(* Rerun: properties                                                       *)

\* C4: running the interchange stage twice on the same input artifacts and
\* the same metadata tables writes the same artifact both times, whatever
\* the calendar days of the two runs.
C4_RerunSameArtifact ==
    rr_pc = "done" => itx_artifact = itx_previous

---------------------------------------------------------------------------
(* Orchestrator and stage invocations: properties                          *)

IsBaseiiCall(c) == c \in Range(BaseiiCalls)

\* C5: a run of the orchestrator invokes the six BASE II stages in the order
\* Transform, Extract, Clean, Calculate, Interchange, Store, each one only
\* after the previous one wrote its artifact, and unless a BASE II stage
\* fails or the storage or the configuration fails, the run completes Store.
C5_RunAllReachesStore ==
    driver = "run_demo" =>
        LET stages == SelectSeq(invoked, IsBaseiiCall)
        IN  /\ Len(stages) <= Len(BaseiiCalls)
            /\ \A k \in 1..Len(stages) : stages[k] = BaseiiCalls[k]
            /\ \A k \in 2..Len(stages) :
                   Artifact(RunFile, BaseiiTarget(BaseiiCalls[k - 1]), "") \in artifacts
            /\ (call = "none" /\ outcome = "raised") =>
                   (fault \/ IsBaseiiCall(invoked[Len(invoked)]))
            /\ (call = "none" /\ or_pc > Len(RunDemoCalls)) =>
                   Artifact(RunFile, "BASEII_DRAFTS", "") \in artifacts

\* C6: when a stage invocation fails, the store holds nothing that this
\* invocation wrote; a VSS stage failing at one type leaves no artifact of
\* the types it processed before.
C6_FailedStageWroteNothing ==
    (call = "none" /\ outcome = "raised") => written = {}


---------------------------------------------------------------------------
(* Clean stage: properties                                                 *)

\* A configuration error of a column, in the terms of the error taxonomy.
ConfigurationError(name) ==
    \/ \A d \in visa_fields : d.column_name # name
    \/ \E d \in visa_fields :
          /\ d.column_name = name
          /\ \/ d.column_type = "float" /\ d.float_decimals <= 0
             \/ d.column_type = "date" /\ d.date_format = ""
             \/ d.column_type = "date" /\
                    d.date_format \notin {"%Y%m%d", "!MMDD", "!YDDD", "!YYYYDDD"}
             \/ d.column_type \notin {"str", "int", "float", "date"}

\* C7: when an extracted column has a configuration error (no field
\* definition, a float with float_decimals not above 0, a date with an empty
\* or unknown format, an unknown column_type) the clean stage never writes:
\* the target artifact stays as it was and the stage does not complete.
C7_ConfigErrorWritesNothing ==
    (\E k \in 1..Len(columns) : ConfigurationError(columns[k])) =>
        /\ cln_artifact = cln_before
        /\ cl_pc # "done"

\* C7 witness: the stage raised on the second column, after it cleaned the
\* first, and the artifact of an earlier run is still in place.
C7_Witness ==
    /\ cl_pc = "raised"
    /\ cl_i = 2
    /\ Len(fields) = 1
    /\ ConfigurationError(columns[2])
    /\ cln_before = Earlier
    /\ cln_artifact = Earlier

---------------------------------------------------------------------------
(* Transform stage: properties                                             *)

HeaderLength == file_lines[1].length

\* C11: when the first line of the file is 168 or 170 characters long, every
\* line _load_as_ctf returns is exactly 168 characters long, whatever the
\* lengths of the later lines.
C11_CtfLinesAre168 ==
    (ld_pc \in {"loaded", "done"} /\ HeaderLength \in {168, 170}) =>
        \A p \in 1..Len(ctf_records) : ctf_records[p].length = 168

\* C12: when the first line has another length, the stage logs an error,
\* whatever it writes has no transaction row, and no line of the file is in
\* the output.
C12_UnknownHeaderEmptyOutput ==
    (ld_pc \in {"loaded", "done", "raised"} /\ file_lines # <<>>
        /\ HeaderLength \notin {168, 170}) =>
        /\ error_logged
        /\ ctf_records = <<>>
        /\ raw_drafts.rows = <<>>
        /\ ld_pc = "done" => raw_drafts.written

\* C12 witness: a file with an unknown header length and a draft line went
\* through the stage, and the artifact written has no row.
C12_Witness ==
    /\ ld_pc = "done"
    /\ Len(file_lines) = 2
    /\ HeaderLength = 172
    /\ file_lines[2].length = 168
    /\ file_lines[2].tc = "05"
    /\ error_logged
    /\ raw_drafts = [written |-> TRUE, rows |-> <<>>]

---------------------------------------------------------------------------
(* ARDEF resolver and account binding: properties                          *)

\* C13: after _get_visa_ardef, for every two surviving rows i < j in sort
\* order the table_key of i is strictly below the low_key_for_range of j:
\* the closed intervals are pairwise disjoint.
C13_SurvivorsDisjoint ==
    ar_pc = "resolved" =>
        \A i, j \in 1..Len(ardef_data) :
            i < j => ardef_data[i].table_key < ardef_data[j].low_key_for_range

\* C13 witness: three rows in force on the file's date, of which two
\* survive the resolver.
C13_Witness ==
    /\ ar_pc = "resolved"
    /\ Cardinality({r \in visa_ardef : ValidFor(r, ar_file_date)}) = 3
    /\ Len(ardef_data) = 2

\* The interval a row of the clean artifact is bound to.
BoundTo(p) == account_interval[p]

\* C14: every transaction is bound to exactly one interval, the surviving
\* interval that contains its account number or fill_interval when there is
\* none; a transaction bound to fill_interval is in the output and its
\* ARDEF-projected column is null there.
C14_BoundOnceSentinelNull ==
    ar_pc = "calculated" =>
        \A p \in 1..Len(clean_accounts) :
            LET a == clean_accounts[p].account_number
                holders == {q \in 1..Len(ardef_data) : Contains(Interval(ardef_data[q]), a)}
            IN  /\ Cardinality(holders) <= 1
                /\ \A q \in holders : BoundTo(p) = Interval(ardef_data[q])
                /\ holders = {} => BoundTo(p) = fill_interval
                /\ BoundTo(p) = fill_interval =>
                      /\ HasLabel(ar_cal, clean_accounts[p].idx)
                      /\ Loc(ar_cal, clean_accounts[p].idx).ardef_country = NoRecord

\* The rows in force on the file's date, one per table_key and per
\* low_key_for_range, in sort order: the rows overlap elimination reads.
Deduplicated ==
    DropDuplicates(DropDuplicates(
        SortValues({r \in visa_ardef : ValidFor(r, ar_file_date)}), "table_key"),
        "low_key_for_range")

\* The closed intervals of two rows have an account number in common.
Overlapping(a, b) ==
    a.low_key_for_range <= b.table_key /\ b.low_key_for_range <= a.table_key

\* C28: a record in force is removed by overlap elimination only when its
\* interval overlaps the interval of a record that survives; hence every
\* account number covered by a record in force is covered by a surviving
\* interval.
C28_OverlapKeepsCoverage ==
    ar_pc = "resolved" =>
        /\ \A p \in 1..Len(Deduplicated) :
              Overlap(Deduplicated, p) =>
                  \E q \in 1..Len(ardef_data) : Overlapping(Deduplicated[p], ardef_data[q])
        /\ \A a \in WideKeys :
              (\E r \in visa_ardef : ValidFor(r, ar_file_date) /\ Contains(Interval(r), a)) =>
                  \E q \in 1..Len(ardef_data) : Contains(Interval(ardef_data[q]), a)

---------------------------------------------------------------------------
(* Jurisdiction fields: properties                                         *)

\* The regions the country table gives a country.
RegionsOf(code) ==
    {country_table[k].visa_region_code :
        k \in {j \in 1..Len(country_table) : country_table[j].country_code = code}}

SameCountry(t) == Eq(t.merchant_country_code, t.ardef_country)

SameRegion(t) == t.ardef_region \in RegionsOf(t.merchant_country_code)

BinListed(t) == t.issuing \in {"bin6", "bin8"} \/ t.acquiring

\* C15: the jurisdiction of a draft is on-us exactly when the merchant
\* country equals the issuer country and the issuer BIN (6 or 8 digits) or
\* the acquirer BIN is in the client's list; otherwise off-us when the
\* countries are equal, otherwise intraregional when the regions are equal,
\* otherwise interregional; every transaction gets one of the four values.
C15_JurisdictionFourWay ==
    ju_pc = "done" =>
        \A p \in 1..Len(jur_source) :
            LET t == jur_source[p]
            IN  /\ HasLabel(jur_cal, p)
                /\ Loc(jur_cal, p).jurisdiction =
                      IF SameCountry(t) /\ BinListed(t) THEN "on-us"
                      ELSE IF SameCountry(t) THEN "off-us"
                      ELSE IF SameRegion(t) THEN "intraregional"
                      ELSE "interregional"

\* C16: jurisdiction_assigned of a draft is the merchant country when the
\* merchant country equals the issuer country, the issuer region when the
\* countries differ and the regions are equal, and "9" otherwise; so
\* jurisdiction is on-us or off-us exactly when jurisdiction_assigned is the
\* merchant country, intraregional exactly when it is the issuer region and
\* interregional exactly when it is "9".
C16_JurisdictionAssigned ==
    ju_pc = "done" =>
        \A p \in 1..Len(jur_source) :
            LET t == jur_source[p]
                assigned == Loc(jur_cal, p).jurisdiction_assigned
                j == Loc(jur_cal, p).jurisdiction
            IN  /\ HasLabel(jur_cal, p)
                /\ assigned = IF SameCountry(t) THEN t.merchant_country_code
                              ELSE IF SameRegion(t) THEN t.ardef_region
                              ELSE "9"
                /\ j \in {"on-us", "off-us"} <=> assigned = t.merchant_country_code
                /\ j = "intraregional" <=> assigned = t.ardef_region
                /\ j = "interregional" <=> assigned = "9"

\* The rows the interchange stage reads for the transactions of the clean
\* artifact: the calculated row with the label of each, none of them bound.
CalculatedTransactions == [p \in 1..Len(jur_source) |-> Loc(jur_cal, p)]

Unbound == [p \in 1..Len(jur_source) |-> UnboundColumns]

\* The transaction p is in the batch of a rule of the region.
InBatchOf(p, region) ==
    \E k \in 1..Len(NextBatch(CalculatedTransactions, Unbound,
                              [region_country_code |-> region])) :
        NextBatch(CalculatedTransactions, Unbound, [region_country_code |-> region])[k].t = p

---------------------------------------------------------------------------
(* Clean cell values: properties                                           *)

\* A text is an integer literal: digits only.
IsIntegerText(s) == s # <<>> /\ \A p \in 1..Len(s) : s[p] \in Digits

\* A cell can be coerced to the type its column declares.
Coercible(c) ==
    LET pre == Strip(c.text)
    IN  CASE c.definition.column_type = "str" -> TRUE
          [] c.definition.column_type = "int" -> IsIntegerText(pre)
          [] c.definition.column_type = "float" -> ToNumeric(pre) # Null
          [] c.definition.column_type = "date" -> ToDatetime(pre) # Null

\* C17: a cell that cannot be coerced to its declared type (a non-numeric
\* or fractional text in an int column, a non-numeric text in a float
\* column, an unparseable text in a date column) is null in the output, the
\* other cells of the row are cleaned, and the stage does not fail.
C17_CoercionFailureIsNull ==
    (cv_pc \in {"done", "raised"} /\ ext_cells # <<>>) =>
        /\ cv_pc = "done"
        /\ \A k \in 1..Len(ext_cells) :
              IF Coercible(ext_cells[k])
                  THEN cln_cells[k] = CleanCell(ext_cells[k])
                  ELSE cln_cells[k] = Null

\* The digit an overpunched last character stands for.
OverpunchDigit(c) == IF c = "A" THEN <<"1">> ELSE IF c = "}" THEN <<"0">> ELSE <<c>>

\* The text with its last character decoded.
DecodeOverpunch(s) ==
    IF s = <<>> THEN s ELSE SubSeq(s, 1, Len(s) - 1) \o OverpunchDigit(s[Len(s)])

\* C18: a float column with scale s decodes an overpunched last character
\* ("}" as 0, "A" as 1) before parsing and divides by 10^s: with scale 2,
\* "11A" cleans to 1.11 and "11}" to 1.10.
C18_OverpunchDecoded ==
    cv_pc = "done" =>
        \A k \in 1..Len(ext_cells) :
            LET c == ext_cells[k]
                pre == Strip(c.text)
            IN  (/\ c.definition.column_type = "float"
                 /\ Len(pre) >= 2
                 /\ \A p \in 1..(Len(pre) - 1) : pre[p] \in Digits
                 /\ pre[Len(pre)] \in {"A", "}"}) =>
                    /\ cln_cells[k] # Null
                    /\ cln_cells[k].m * Power10(c.definition.float_decimals)
                          = 10 * DigitsValue(SubSeq(pre, 1, Len(pre) - 1))
                                * Power10(cln_cells[k].e)
                            + DigitOf(OverpunchDigit(pre[Len(pre)])[1])
                                * Power10(cln_cells[k].e)

---------------------------------------------------------------------------
(* Properties of the rule criteria                                         *)

\* The tokens of a default-group cell, and what a token stands for: a token
\* low-high stands for every integer from low to high, any other token for
\* its own text.
CellTokens(cell) == StrSplit(Normalise(cell), <<",">>, -1)

StandsFor(token, v) ==
    LET text == StrReplace(token, <<"N", "O", "T", ":">>, <<>>)
        bounds == StrSplit(text, <<"-">>, 1)
    IN  IF StrIn(<<"-">>, text)
        THEN /\ IsNumber(AsStr(v))
             /\ StrInt(bounds[1]) <= StrInt(AsStr(v))
             /\ StrInt(AsStr(v)) <= StrInt(bounds[2])
        ELSE AsStr(v) = text

Passes(cell, v) ==
    LET tokens == CellTokens(cell)
        positive == {k \in 1..Len(tokens) : ~StrIn(<<"N", "O", "T", ":">>, tokens[k])}
        negative == {k \in 1..Len(tokens) : StrIn(<<"N", "O", "T", ":">>, tokens[k])}
    IN  /\ positive # {} => \E k \in positive : StandsFor(tokens[k], v)
        /\ \A k \in negative : ~StandsFor(tokens[k], v)

\* The batch rows a criterion kept, by position in the batch.
KeptRows == {cr_filter[k].t : k \in 1..Len(cr_filter)}

\* C21: a default-group cell is a comma-separated token list, low-high
\* standing for every integer from low to high and NOT: marking exclusion; a
\* transaction passes exactly when its stringified value is among the
\* positive tokens (when there are any) and not among the negative ones.
C21_TokenListMatches ==
    (cr_pc = "applied" /\ cr_name = "draft_code") =>
        \A p \in 1..Len(cr_batch) :
            p \in KeptRows <=> Passes(cr_value, cr_batch[p].draft_code)

\* The reading of a numeric-range cell: an operator <, <=, >, >= or =
\* followed by a number, or BETWEEN low AND high.
RangeOperators == {<<"<", "=">>, <<">", "=">>, <<"<">>, <<">">>, <<"=">>}

RangeReading(cell) ==
    LET text == Normalise(cell)
        ops == {o \in RangeOperators :
                    StrAt(text, o, 1) /\ IsNumber(SubSeq(text, Len(o) + 1, Len(text)))}
        between == StrSplit(SubSeq(text, 8, Len(text)), <<"A", "N", "D">>, 1)
    IN  IF ops # {}
        THEN LET o == CHOOSE o \in ops : TRUE
                 n == StrInt(SubSeq(text, Len(o) + 1, Len(text)))
             IN  [ok |-> TRUE, op |-> o, lo |-> n, hi |-> n]
        ELSE IF StrAt(text, <<"B", "E", "T", "W", "E", "E", "N">>, 1) /\ Len(between) = 2
                /\ IsNumber(between[1]) /\ IsNumber(between[2])
        THEN [ok |-> TRUE, op |-> <<"B", "E", "T", "W", "E", "E", "N">>, lo |-> StrInt(between[1]), hi |-> StrInt(between[2])]
        ELSE [ok |-> FALSE, op |-> <<>>, lo |-> 0, hi |-> 0]

ReadingHolds(reading, x) ==
    /\ x.has
    /\ CASE reading.op = <<"<">> -> x.val < reading.lo
         [] reading.op = <<"<", "=">> -> x.val <= reading.lo
         [] reading.op = <<">">> -> x.val > reading.lo
         [] reading.op = <<">", "=">> -> x.val >= reading.lo
         [] reading.op = <<"=">> -> x.val = reading.lo
         [] reading.op = <<"B", "E", "T", "W", "E", "E", "N">> -> reading.lo <= x.val /\ x.val <= reading.hi

\* C22: a numeric-range criterion (timeliness) with one of the operators
\* <, <=, >, >=, = and a number, or BETWEEN low AND high, is accepted and
\* keeps exactly the transactions whose column value satisfies it.
C22_RangeKeepsSatisfying ==
    (cr_name = "timeliness" /\ cr_pc # "apply" /\ RangeReading(cr_value).ok) =>
        /\ cr_pc = "applied"
        /\ \A p \in 1..Len(cr_batch) :
              p \in KeptRows <=> ReadingHolds(RangeReading(cr_value), cr_batch[p].timeliness)


\* The reading of an amount cell "CCY,<range>".
AmountReading(cell) ==
    LET parts == StrSplit(Normalise(cell), <<",">>, 1)
    IN  IF Len(parts) = 2
        THEN [ccy |-> parts[1], range |-> RangeReading(parts[2])]
        ELSE [ccy |-> <<>>, range |-> RangeReading(<<>>)]

\* A rate from the transaction's source currency to ccy exists and the
\* converted amount satisfies the range.
ConvertedPasses(reading, t) ==
    \E k \in 1..Len(cr_rates) :
        /\ cr_rates[k].currency_to = reading.ccy
        /\ cr_rates[k].currency_from_code = t.source_currency_code
        /\ ReadingHolds(reading.range,
                        [has |-> t.source_amount.has,
                         val |-> t.source_amount.val * cr_rates[k].exchange_value])

\* C23: a source_amount criterion "CCY,<range>" keeps exactly the
\* transactions with a rate from their source currency to CCY whose converted
\* amount satisfies the range, each of them once.
C23_AmountKeepsConverted ==
    (cr_name = "source_amount" /\ cr_pc = "applied" /\ AmountReading(cr_value).range.ok) =>
        LET passing == SelectSeq(cr_batch,
                            LAMBDA t : ConvertedPasses(AmountReading(cr_value), t))
        IN  [k \in 1..Len(cr_filter) |-> cr_filter[k].idx]
                = [k \in 1..Len(passing) |-> passing[k].idx]

\* A range text with neither a comparison operator nor BETWEEN / AND.
NoOperator(text) ==
    /\ \A x \in {<<"<">>, <<">">>, <<"=">>} : ~StrIn(x, text)
    /\ \A x \in {<<"B", "E", "T", "W", "E", "E", "N">>, <<"A", "N", "D">>} : ~StrIn(x, text)

\* A malformed criterion cell: a numeric-range or amount cell with neither a
\* comparison operator nor BETWEEN / AND, or a default-group range token
\* whose bounds are not integers.
Malformed(name, cell) ==
    LET text == Normalise(cell)
        parts == StrSplit(text, <<",">>, 1)
        tokens == StrSplit(text, <<",">>, -1)
    IN  /\ text \notin {<<>>, <<"N", "A", "N">>, <<"N", "O", "N", "E">>}
        /\ CASE name = "timeliness" -> NoOperator(text)
             [] name = "source_amount" -> NoOperator(parts[Len(parts)])
             [] OTHER -> \E k \in 1..Len(tokens) :
                            LET token == StrReplace(tokens[k], <<"N", "O", "T", ":">>, <<>>)
                                bounds == StrSplit(token, <<"-">>, 1)
                            IN  /\ Len(bounds) = 2
                                /\ ~IsNumber(bounds[1]) \/ ~IsNumber(bounds[2])

\* C24: whenever the rule carries a malformed criterion cell the interchange
\* stage fails and writes no artifact, whatever the transactions of the file.
C24_MalformedCellFailsStage ==
    (cr_pc \in {"written", "raised"}
        /\ \E k \in 1..Len(ConditionColumns) :
              Malformed(ConditionColumns[k], cr_rule[ConditionColumns[k]])) =>
        cr_pc = "raised"

---------------------------------------------------------------------------
(* Field extractor: properties                                             *)

\* The definition applies to the row: it has no secondary identifier, or the
\* row's slice at the identifier position and length equals the literal.
Applies(fd, r) ==
    \/ fd.secondary.literal = <<>>
    \/ SubSeq(r.text[fd.tcsn], fd.secondary.pos,
              Min({fd.secondary.pos + fd.secondary.len - 1, Len(r.text[fd.tcsn])}))
           = fd.secondary.literal

\* The substring [position-1, position-1+length) of the sub-record.
Substring(fd, r) ==
    SubSeq(r.text[fd.tcsn], fd.position,
           Min({fd.position + fd.length - 1, Len(r.text[fd.tcsn])}))

\* C25: for each field definition the extracted column holds, for every
\* transaction row, the substring [position-1, position-1+length) of the
\* definition's sub-record when the definition applies to the row, and the
\* empty string otherwise.
C25_ExtractedCellIsSlice ==
    ex_pc = "extracted" =>
        \A p \in 1..Len(ex_data) : \A k \in 1..Len(ex_defs) :
            /\ HasLabel(extract_df, ex_data[p].idx)
            /\ Loc(extract_df, ex_data[p].idx).cells[k]
                 = IF Applies(ex_defs[k], ex_data[p])
                   THEN Substring(ex_defs[k], ex_data[p]) ELSE <<>>

---------------------------------------------------------------------------
(* Date formats: properties                                                *)

\* The text is a month and a day that some year has.
IsMonthDay(text) ==
    /\ Len(text) = 4
    /\ IsNumber(text)
    /\ StrInt(SubSeq(text, 1, 2)) \in 1..12
    /\ StrInt(SubSeq(text, 3, 4)) \in 1..DaysInMonth(2024, StrInt(SubSeq(text, 1, 2)))

\* The most recent date with the month and day of the text that is not after
\* the reference date.
MostRecent(text, reference_date) ==
    LET m == StrInt(SubSeq(text, 1, 2))
        d == StrInt(SubSeq(text, 3, 4))
        years == {y \in (reference_date.y - 8)..reference_date.y :
                     /\ d <= DaysInMonth(y, m)
                     /\ ~After(Date(y, m, d), reference_date)}
    IN  Date(CHOOSE y \in years : \A z \in years : z <= y, m, d)

\* C26: for the format !MMDD, every processing date and every input month
\* and day, the cleaned date is the most recent calendar date with that month
\* and day that is not after the processing date.
C26_MmddMostRecent ==
    (dt_pc = "parsed" /\ dt_format = "!MMDD" /\ IsMonthDay(dt_text)) =>
        dt_result = MostRecent(dt_text, dt_file_date)

\* The text is four digits of a year and a day of that year.
ValidDayOfYear(text) ==
    /\ Len(text) > 4
    /\ IsNumber(text)
    /\ StrInt(SubSeq(text, 1, 4)) >= 1
    /\ StrInt(SubSeq(text, 5, Len(text))) \in 1..DaysInYear(StrInt(SubSeq(text, 1, 4)))

\* C27: for the format !YYYYDDD an input whose day-of-year is not a valid
\* day of its year (0, above 366, or 366 in a year that is not a leap year)
\* cleans to null, and every valid input cleans to a date in the year given
\* by its first four digits.
C27_InvalidDayOfYearIsNull ==
    (dt_pc = "parsed" /\ dt_format = "!YYYYDDD") =>
        IF ValidDayOfYear(dt_text)
        THEN dt_result # Null /\ dt_result.y = StrInt(SubSeq(dt_text, 1, 4))
        ELSE dt_result = Null

---------------------------------------------------------------------------
(* Dispatch tables: properties                                             *)

\* C29: a draft with code in {06,16,26,36} and usage_code 1 gets
\* business_transaction_type 20 when its special condition indicator is 7 or
\* 8, 25 when draft_code_qualifier_0 is 2, and 19 otherwise; a draft with
\* code 05 or 25 and merchant category code outside {4829,6051,7995} gets 1;
\* codes 25, 26, 27 have reversal_indicator 1 and codes 05, 06, 07 have 0.
C29_DispatchTables ==
    bt_pc = "calculated" =>
        /\ (bt_source.draft_code \in {"06", "16", "26", "36"} /\ bt_source.usage_code = 1) =>
              bt_fields.business_transaction_type =
                 IF bt_source.special_condition_indicator_merchant_draft_indicator \in {"7", "8"}
                 THEN 20
                 ELSE IF bt_source.draft_code_qualifier_0 = 2 THEN 25 ELSE 19
        /\ (bt_source.draft_code \in {"05", "25"}
              /\ bt_source.merchant_category_code \notin {4829, 6051, 7995}) =>
              bt_fields.business_transaction_type = 1
        /\ bt_source.draft_code \in {"25", "26", "27"} => bt_fields.reversal_indicator = 1
        /\ bt_source.draft_code \in {"05", "06", "07"} => bt_fields.reversal_indicator = 0

====
